---------------------------- MODULE Spec2Model ----------------------------
(***************************************************************************)
(* Model of package reloader (src/main.go): Watch and WatchMultiple.      *)
(*                                                                         *)
(* One call of Watch or WatchMultiple is the coordinating loop; the       *)
(* environment is the fsnotify watcher (raw events, adapter errors,       *)
(* creation / registration failures), the Go runtime timers and the       *)
(* caller's context.  Time is discrete.  Timers are countdowns; Tick      *)
(* advances time by one unit and is taken only when nothing is ready at   *)
(* the current instant (loop latency and timer latency are zero), so      *)
(* every ordering of the things that are ready at one instant is          *)
(* explored while the time stamps stay exact.  w.Events and w.Errors are  *)
(* unbuffered channels: the watcher's send and the loop's receive are one *)
(* step.                                                                   *)
(***************************************************************************)
EXTENDS Integers, Sequences, FiniteSets, TLC

(***************************************************************************)
(* Bounds of the model.                                                   *)
(***************************************************************************)
\* raw events the event source delivers in one call
MaxEvents == 3
\* adapter errors delivered on w.Errors in one call
MaxErrors == 1
\* failed NewWatcher / Add attempts (on an open watcher) in one call
MaxFails == 1
\* the same, in the runs of Watch that follow repeated failures
MaxRetryFails == 3
\* raw events in one call, in the runs with delays left unset
MaxDefaultsEvents == 2
\* raw events in one call, in the runs with timerMutex
MaxMutexEvents == 2
\* raw events in one call, in the runs that compare callers with and without
\* OnEvent / OnError
MaxAdvisoryEvents == 1

(***************************************************************************)
(* Program constants (in seconds).                                        *)
(***************************************************************************)
DefaultDebounce == 3
DefaultRetryDelay == 2

\* Debounce and RetryDelay values a caller passes
DebounceInputs == {2}
RetryDelayInputs == {1}
\* the same with the zero value of a field left unset
DebounceOrUnset == DebounceInputs \cup {0}
RetryDelayOrUnset == RetryDelayInputs \cup {0}

(***************************************************************************)
(* Paths and raw events.                                                  *)
(***************************************************************************)
Path(d, b) == [dir |-> d, base |-> b]

FileA == Path("d1", "a")
FileB == Path("d2", "b")
FileC == Path("d1", "c")
\* a file nobody watches, in a watched directory
Sibling == Path("d1", "x")

\* the empty TargetFile; filepath.Dir("") is "."
NoPath == Path(".", "")
\* a file of the working directory
CwdFile == Path(".", "y")

Targets == {FileA, FileB, FileC, NoPath}
AllPaths == {FileA, FileB, FileC, Sibling, CwdFile}

\* filepath.Dir
Dir(p) == p.dir

\* the fsnotify.Op bit sets the event source reports
OpSets == {{"Write"}, {"Create"}, {"Rename"}, {"Remove"}, {"Chmod"}, {"Chmod", "Write"}}

RawEvents == [Name : AllPaths, Op : OpSets]

\* ev.Op&Write != 0 || ev.Op&Create != 0 || ev.Op&Rename != 0 || ev.Op&Remove != 0
OpMatches(op) == op \cap {"Write", "Create", "Rename", "Remove"} # {}

\* a filter that attributes an event to every target of its directory
IsRelevantSameDir(ev, target) == Dir(ev.Name) = Dir(target) /\ OpMatches(ev.Op)

\* ev.Name == target && (the operation test)
IsRelevant(ev, target) == ev.Name = target /\ OpMatches(ev.Op)

\* the Config values a caller passes to Watch: a target, or none
WatchConfigsOf(debounces, retryDelays) ==
    [OnChange : BOOLEAN, OnEvent : {TRUE}, OnError : BOOLEAN, TargetFiles : {<<FileA>>},
     Debounce : debounces, RetryDelay : retryDelays]
    \cup
    [OnChange : {TRUE}, OnEvent : {TRUE}, OnError : {TRUE}, TargetFiles : {<<NoPath>>},
     Debounce : debounces, RetryDelay : retryDelays]

WatchConfigs == WatchConfigsOf(DebounceInputs, RetryDelayInputs)

\* the MultiConfig values a caller passes to WatchMultiple: two directories,
\* one shared directory, a path listed twice, no path at all
MultiConfigsOf(debounces, retryDelays) ==
    [OnChange : BOOLEAN, OnEvent : {TRUE}, OnError : {TRUE},
     TargetFiles : {<<FileA, FileB>>, <<FileA, FileC>>, << >>},
     Debounce : debounces, RetryDelay : retryDelays]
    \cup
    [OnChange : {TRUE}, OnEvent : {TRUE}, OnError : BOOLEAN, TargetFiles : {<<FileA, FileA>>},
     Debounce : debounces, RetryDelay : retryDelays]

MultiConfigs == MultiConfigsOf(DebounceInputs, RetryDelayInputs)

Range(s) == {s[i] : i \in 1..Len(s)}

VARIABLES
    mode,            \* the function called: "Watch", "WatchMultiple", "SelfMonitor",
                     \* or "SignalWatch" for the Watch that sends a signal
    asyncTimerChan,  \* TRUE: timer channels buffer one value (Go < 1.23 timers)
    cfg,             \* the Config / MultiConfig value
    pc,              \* position of the coordinating loop
    result,          \* what the call returned
    cancelled,       \* ctx.Done() is closed
    handle,          \* state of the current watcher w
    openHandles,     \* watchers created by the call and not closed
    registered,      \* directories registered on the current watcher w
    nWatchers,       \* successful fsnotify.NewWatcher calls
    toAdd,           \* WatchMultiple: directories the range loop has not visited
    evBudget,        \* raw events the source may still deliver
    errBudget,       \* adapter errors the source may still deliver
    failBudget,      \* creation / registration failures still possible
    retryLeft,       \* time left of time.After(cfg.RetryDelay)
    debounce,        \* Watch: the session's timer
    orphans,         \* Watch: countdowns of earlier sessions' armed timers
    timers,          \* WatchMultiple: live time.AfterFunc timers; inMap: the timer is
                     \* the one its session's activeTimers holds for its path
    queues,          \* WatchMultiple: one settled queue per session, latest last
    since,           \* observer: time since the last relevant event, per path
    clean,           \* observer: the current burst is isolated and undisturbed
    dirty,           \* observer: some burst of the session was not
    fires,           \* observer: OnChange calls since the current burst began
    nBursts,         \* observer: bursts begun in this session
    nEvents,         \* observer: relevant events processed in this session
    nChange,         \* observer: OnChange calls in this session, per path
    owed,            \* observer: a relevant event of the path awaits its OnChange
    changeAfterCancel, \* observer: OnChange ran while ctx was already done
    changeAfterReturn, \* observer: OnChange ran after the call had returned
    nOnError,        \* observer: OnError calls
    onEventCalled,   \* observer: OnEvent has been called
    evTarget         \* WatchMultiple: targetFile of the event being handled

vars == <<mode, asyncTimerChan, cfg, pc, result, cancelled, handle, openHandles,
          registered,
          nWatchers, toAdd, evBudget, errBudget,
          failBudget, retryLeft, debounce, orphans, timers,
          queues, since, clean, dirty, fires, nBursts, nEvents, nChange, owed,
          changeAfterCancel, changeAfterReturn, nOnError, onEventCalled, evTarget>>

envVars == <<evBudget, errBudget>>
watchTimerVars == <<debounce, orphans>>
multiTimerVars == <<timers, queues>>
burstVars == <<since, clean, dirty, fires, nBursts, nEvents>>
changeVars == <<nChange, changeAfterCancel, changeAfterReturn>>
obsVars == <<burstVars, changeVars, owed>>

\* the settle delay in force
D == cfg.Debounce

\* "more than the settle delay ago" (the observer's clock saturates here)
LongAgo == D + 1

(***************************************************************************)
(* Observers (history variables; they never influence the program).       *)
(***************************************************************************)
\* a relevant event for path t is processed now.  It continues the burst when
\* the previous one is less than D old, begins a burst when that is more than
\* D old; at exactly D it races with the expiring timer and the burst is not
\* isolated.  Once ctx is cancelled no burst is followed.
ObserveEvent(t) ==
    IF cancelled
       THEN UNCHANGED <<burstVars, owed>>
       ELSE /\ since' = [since EXCEPT ![t] = 0]
            /\ clean' = [clean EXCEPT ![t] =
                            IF since[t] > D THEN TRUE
                            ELSE IF since[t] < D THEN clean[t]
                            ELSE FALSE]
            /\ dirty' = [dirty EXCEPT ![t] = dirty[t] \/ since[t] = D]
            /\ fires' = [fires EXCEPT ![t] = IF since[t] < D THEN fires[t] ELSE 0]
            /\ nBursts' = [nBursts EXCEPT ![t] =
                              IF since[t] < D THEN nBursts[t] ELSE nBursts[t] + 1]
            /\ nEvents' = [nEvents EXCEPT ![t] = nEvents[t] + 1]
            /\ owed' = [owed EXCEPT ![t] = TRUE]

\* OnChange is invoked for path t now
ObserveChange(t) ==
    /\ fires' = [fires EXCEPT ![t] = IF cancelled THEN fires[t] ELSE fires[t] + 1]
    /\ nChange' = [nChange EXCEPT ![t] = IF cancelled THEN nChange[t] ELSE nChange[t] + 1]
    /\ owed' = [owed EXCEPT ![t] = FALSE]
    /\ changeAfterCancel' = (changeAfterCancel \/ cancelled)
    /\ changeAfterReturn' = (changeAfterReturn \/ pc = "returned")

\* a session begins (or the previous one is torn down): nothing is pending
ObserveSession(debounceDelay) ==
    /\ since' = [t \in Targets |-> debounceDelay + 1]
    /\ clean' = [t \in Targets |-> FALSE]
    /\ dirty' = [t \in Targets |-> FALSE]
    /\ fires' = [t \in Targets |-> 0]
    /\ nBursts' = [t \in Targets |-> 0]
    /\ nEvents' = [t \in Targets |-> 0]
    /\ nChange' = [t \in Targets |-> 0]
    /\ owed' = [t \in Targets |-> FALSE]

\* the call returns on cancellation: the event source has nobody left to
\* deliver to, and no burst is followed any more
ReturnCtxErr ==
    /\ pc' = "returned"
    /\ result' = "ctxErr"
    /\ evBudget' = 0
    /\ errBudget' = 0
    /\ failBudget' = 0

\* if cfg.OnEvent != nil { cfg.OnEvent(...) }, reached when called is TRUE
CallOnEvent(called) == onEventCalled' = (onEventCalled \/ (called /\ cfg.OnEvent))

\* cfg.OnError(err), when set
CallOnError == nOnError' = IF cfg.OnError THEN nOnError + 1 ELSE nOnError

(***************************************************************************)
(* Init: the state when Watch / WatchMultiple is entered.                 *)
(***************************************************************************)
StoppedTimer == [armed |-> FALSE, left |-> 0, C |-> FALSE]

\* everything but the function called and its configuration
InitRest(events, errors, fails) ==
    /\ pc = "start"
    /\ result = "none"
    /\ cancelled = FALSE
    /\ handle = "none"
    /\ openHandles = 0
    /\ registered = {}
    /\ nWatchers = 0
    /\ toAdd = {}
    /\ evBudget = events
    /\ errBudget = errors
    /\ failBudget = fails
    /\ retryLeft = 0
    /\ debounce = StoppedTimer
    /\ orphans = {}
    /\ timers = {}
    /\ queues = << >>
    /\ since = [t \in Targets |-> 0]
    /\ clean = [t \in Targets |-> FALSE]
    /\ dirty = [t \in Targets |-> FALSE]
    /\ fires = [t \in Targets |-> 0]
    /\ nBursts = [t \in Targets |-> 0]
    /\ nEvents = [t \in Targets |-> 0]
    /\ nChange = [t \in Targets |-> 0]
    /\ owed = [t \in Targets |-> FALSE]
    /\ changeAfterCancel = FALSE
    /\ changeAfterReturn = FALSE
    /\ nOnError = 0
    /\ onEventCalled = FALSE
    /\ evTarget = NoPath

InitFrom(watchConfigs, multiConfigs, events, errors, fails) ==
    /\ mode \in {"Watch", "WatchMultiple"}
    /\ asyncTimerChan \in BOOLEAN
    /\ mode = "WatchMultiple" => ~asyncTimerChan
    /\ cfg \in (IF mode = "Watch" THEN watchConfigs ELSE multiConfigs)
    /\ InitRest(events, errors, fails)

InitWith(events, errors, fails) ==
    InitFrom(WatchConfigs, MultiConfigs, events, errors, fails)

Init == InitWith(MaxEvents, MaxErrors, MaxFails)

cfgVars == <<mode, asyncTimerChan, cfg>>
handleVars == <<handle, openHandles, registered, nWatchers>>

(***************************************************************************)
(* Watch (single target).                                                 *)
(***************************************************************************)
TargetFile == cfg.TargetFiles[1]

\* a zero check that replaces nothing
WithDefaultsKeepsZero(c) == c

\* cfg.Debounce / cfg.RetryDelay after the zero checks
WithDefaults(c) ==
    [c EXCEPT !.Debounce = IF c.Debounce = 0 THEN DefaultDebounce ELSE c.Debounce,
              !.RetryDelay = IF c.RetryDelay = 0 THEN DefaultRetryDelay ELSE c.RetryDelay]

\* the defaults, then the OnChange check
Watch_Validate ==
    /\ mode = "Watch" /\ pc = "start"
    /\ cfg' = WithDefaults(cfg)
    /\ IF ~cfg.OnChange
          THEN pc' = "returned" /\ result' = "errOnChange"
          ELSE pc' = "open" /\ result' = result
    /\ ObserveSession(cfg'.Debounce)
    /\ UNCHANGED <<mode, asyncTimerChan, cancelled, handleVars, toAdd, envVars,
                   failBudget, retryLeft, watchTimerVars, multiTimerVars,
                   changeAfterCancel, changeAfterReturn, nOnError, onEventCalled, evTarget>>

\* fsnotify.NewWatcher() and its failure branch
Watch_NewWatcher(ok) ==
    /\ mode = "Watch" /\ pc = "open"
    /\ IF ok
          THEN /\ handle' = "open"
               /\ registered' = {}
               /\ openHandles' = openHandles + 1
               /\ nWatchers' = nWatchers + 1
               /\ pc' = "add"
               /\ UNCHANGED <<failBudget, retryLeft, nOnError>>
          ELSE /\ failBudget > 0
               /\ failBudget' = failBudget - 1
               /\ CallOnError
               /\ retryLeft' = cfg.RetryDelay
               /\ pc' = "retry"
               /\ UNCHANGED handleVars
    /\ UNCHANGED <<cfgVars, result, cancelled, toAdd, envVars, watchTimerVars,
                   multiTimerVars, obsVars, onEventCalled, evTarget>>

\* a retry that does not wait for time.After
Watch_RetryElapsedEarly ==
    /\ mode = "Watch" /\ pc \in {"retry", "retryAdd"}
    /\ pc' = "open"
    /\ UNCHANGED <<cfgVars, result, cancelled, handleVars, toAdd, envVars,
                   failBudget, retryLeft, watchTimerVars, multiTimerVars, obsVars,
                   nOnError, onEventCalled, evTarget>>

\* select { case <-time.After(cfg.RetryDelay): continue }
Watch_RetryElapsed ==
    /\ mode = "Watch" /\ pc \in {"retry", "retryAdd"}
    /\ retryLeft = 0
    /\ pc' = "open"
    /\ UNCHANGED <<cfgVars, result, cancelled, handleVars, toAdd, envVars,
                   failBudget, retryLeft, watchTimerVars, multiTimerVars, obsVars,
                   nOnError, onEventCalled, evTarget>>

\* select { case <-ctx.Done(): return ctx.Err() }
Watch_RetryCancelled ==
    /\ mode = "Watch" /\ pc \in {"retry", "retryAdd"}
    /\ cancelled
    /\ ReturnCtxErr
    /\ UNCHANGED <<cfgVars, cancelled, handleVars, toAdd, retryLeft, watchTimerVars,
                   multiTimerVars, obsVars, nOnError, onEventCalled, evTarget>>

\* a registration failure that is returned to the caller
Watch_AddFailReturns(ok) ==
    /\ mode = "Watch" /\ pc = "add"
    /\ IF ok
          THEN /\ debounce' = StoppedTimer
               /\ pc' = "select"
               /\ registered' = {Dir(TargetFile)}
               /\ UNCHANGED <<handle, openHandles, failBudget, result, nOnError>>
          ELSE /\ failBudget > 0
               /\ failBudget' = failBudget - 1
               /\ CallOnError
               /\ handle' = "closed"
               /\ registered' = {}
               /\ openHandles' = openHandles - 1
               /\ pc' = "returned"
               /\ result' = "addErr"
               /\ UNCHANGED debounce
    /\ CallOnEvent(ok)
    /\ UNCHANGED <<cfgVars, cancelled, nWatchers, toAdd, envVars, orphans,
                   retryLeft, multiTimerVars, obsVars, evTarget>>

\* a registration failure that is retried without telling OnError
Watch_AddFailSilent(ok) ==
    /\ mode = "Watch" /\ pc = "add"
    /\ IF ok
          THEN /\ debounce' = StoppedTimer
               /\ pc' = "select"
               /\ registered' = {Dir(TargetFile)}
               /\ UNCHANGED <<handle, openHandles, failBudget, retryLeft>>
          ELSE /\ failBudget > 0
               /\ failBudget' = failBudget - 1
               /\ handle' = "closed"
               /\ registered' = {}
               /\ openHandles' = openHandles - 1
               /\ retryLeft' = cfg.RetryDelay
               /\ pc' = "retryAdd"
               /\ UNCHANGED debounce
    /\ CallOnEvent(ok)
    /\ UNCHANGED <<cfgVars, result, cancelled, nWatchers, toAdd, envVars, orphans,
                   multiTimerVars, obsVars, nOnError, evTarget>>

\* a registration failure whose clean-up is part of the OnError branch
Watch_AddClosesIfReported(ok) ==
    /\ mode = "Watch" /\ pc = "add"
    /\ IF ok
          THEN /\ debounce' = StoppedTimer
               /\ pc' = "select"
               /\ registered' = {Dir(TargetFile)}
               /\ UNCHANGED <<handle, openHandles, failBudget, retryLeft, nOnError>>
          ELSE /\ failBudget > 0
               /\ failBudget' = failBudget - 1
               /\ CallOnError
               /\ handle' = IF cfg.OnError THEN "closed" ELSE handle
               /\ registered' = {}
               /\ openHandles' = IF cfg.OnError THEN openHandles - 1 ELSE openHandles
               /\ retryLeft' = cfg.RetryDelay
               /\ pc' = "retryAdd"
               /\ UNCHANGED debounce
    /\ CallOnEvent(ok)
    /\ UNCHANGED <<cfgVars, result, cancelled, nWatchers, toAdd, envVars, orphans,
                   multiTimerVars, obsVars, evTarget>>

\* w.Add(dir), its failure branch, and the idle timer
Watch_Add(ok) ==
    /\ mode = "Watch" /\ pc = "add"
    /\ IF ok
          THEN /\ debounce' = StoppedTimer
               /\ pc' = "select"
               /\ registered' = {Dir(TargetFile)}
               /\ UNCHANGED <<handle, openHandles, failBudget, retryLeft, nOnError>>
          ELSE /\ failBudget > 0
               /\ failBudget' = failBudget - 1
               /\ CallOnError
               /\ handle' = "closed"
               /\ registered' = {}
               /\ openHandles' = openHandles - 1
               /\ retryLeft' = cfg.RetryDelay
               /\ pc' = "retryAdd"
               /\ UNCHANGED debounce
    /\ CallOnEvent(ok)
    /\ UNCHANGED <<cfgVars, result, cancelled, nWatchers, toAdd, envVars, orphans,
                   multiTimerVars, obsVars, evTarget>>

\* a ctx.Done() branch that returns without closing the watcher
Watch_CancelledLeavesOpen ==
    /\ mode = "Watch" /\ pc = "select"
    /\ cancelled
    /\ ReturnCtxErr
    /\ UNCHANGED <<cfgVars, cancelled, handleVars, toAdd, retryLeft, watchTimerVars,
                   multiTimerVars, obsVars, nOnError, onEventCalled, evTarget>>

\* a select without the ctx.Done() case
Watch_CancelledIgnored == FALSE /\ UNCHANGED vars

\* case <-ctx.Done()
Watch_Cancelled ==
    /\ mode = "Watch" /\ pc = "select"
    /\ cancelled
    /\ handle' = "closed"
    /\ registered' = {}
    /\ openHandles' = openHandles - 1
    /\ ReturnCtxErr
    /\ UNCHANGED <<cfgVars, cancelled, nWatchers, toAdd, retryLeft, watchTimerVars,
                   multiTimerVars, obsVars, nOnError, onEventCalled, evTarget>>

\* a Reset that leaves a running timer's deadline alone
TimerResetKeepsDeadline(t, d) ==
    IF t.armed THEN t
    ELSE [armed |-> TRUE, left |-> d, C |-> IF asyncTimerChan THEN t.C ELSE FALSE]

\* debounce.Reset(d): re-arm; a value already sent stays in a buffered channel
TimerReset(t, d) ==
    [armed |-> TRUE, left |-> d, C |-> IF asyncTimerChan THEN t.C ELSE FALSE]

\* a Stop that re-arms the timer for another settle delay
TimerStopRearms(t) ==
    [armed |-> TRUE, left |-> cfg.Debounce, C |-> IF asyncTimerChan THEN t.C ELSE FALSE]

\* debounce.Stop(): disarm; a value already sent stays in a buffered channel
TimerStop(t) ==
    [armed |-> FALSE, left |-> 0, C |-> IF asyncTimerChan THEN t.C ELSE FALSE]

\* case ev := <-w.Events
Watch_Event(ev) ==
    /\ mode = "Watch" /\ pc = "select"
    /\ handle = "open"
    /\ evBudget > 0
    /\ Dir(ev.Name) \in registered
    /\ evBudget' = evBudget - 1
    /\ IF IsRelevant(ev, TargetFile)
          THEN /\ debounce' = TimerReset(debounce, cfg.Debounce)
               /\ ObserveEvent(TargetFile)
          ELSE UNCHANGED <<debounce, burstVars, owed>>
    /\ CallOnEvent(IsRelevant(ev, TargetFile))
    /\ UNCHANGED <<cfgVars, pc, result, cancelled, handleVars, toAdd, errBudget,
                   failBudget, retryLeft, orphans, multiTimerVars, changeVars,
                   nOnError, evTarget>>

\* an expiration that is received and not passed on to OnChange
Watch_DebounceStopsOnly ==
    /\ mode = "Watch" /\ pc = "select"
    /\ debounce.C
    /\ debounce' = TimerStop([debounce EXCEPT !.C = FALSE])
    /\ CallOnEvent(TRUE)
    /\ UNCHANGED <<cfgVars, pc, result, cancelled, handleVars, toAdd, envVars,
                   failBudget, retryLeft, orphans, multiTimerVars, obsVars,
                   nOnError, evTarget>>

\* case <-debounce.C
Watch_Debounce ==
    /\ mode = "Watch" /\ pc = "select"
    /\ debounce.C
    /\ ObserveChange(TargetFile)
    /\ debounce' = TimerStop([debounce EXCEPT !.C = FALSE])
    /\ CallOnEvent(TRUE)
    /\ UNCHANGED <<cfgVars, pc, result, cancelled, handleVars, toAdd, envVars,
                   failBudget, retryLeft, orphans, multiTimerVars, since, clean,
                   dirty, nBursts, nEvents, nOnError, evTarget>>

\* an Errors case that leaves the select loop without w.Close()
Watch_ErrorLeavesOpen ==
    /\ mode = "Watch" /\ pc = "select"
    /\ handle = "open"
    /\ errBudget > 0
    /\ errBudget' = errBudget - 1
    /\ CallOnError
    /\ orphans' = IF debounce.armed THEN orphans \cup {debounce.left} ELSE orphans
    /\ debounce' = StoppedTimer
    /\ ObserveSession(cfg.Debounce)
    /\ pc' = "open"
    /\ UNCHANGED <<cfgVars, result, cancelled, handleVars, toAdd, evBudget,
                   failBudget, retryLeft, multiTimerVars, changeAfterCancel,
                   changeAfterReturn, onEventCalled, evTarget>>

\* an Errors case that reports the error and goes on with the same watcher
Watch_ErrorKeepsWatcher ==
    /\ mode = "Watch" /\ pc = "select"
    /\ handle = "open"
    /\ errBudget > 0
    /\ errBudget' = errBudget - 1
    /\ CallOnError
    /\ UNCHANGED <<cfgVars, pc, result, cancelled, handleVars, toAdd, evBudget,
                   failBudget, retryLeft, watchTimerVars, multiTimerVars, obsVars,
                   onEventCalled, evTarget>>

\* case err := <-w.Errors; break loop; w.Close()
Watch_Error ==
    /\ mode = "Watch" /\ pc = "select"
    /\ handle = "open"
    /\ errBudget > 0
    /\ errBudget' = errBudget - 1
    /\ CallOnError
    /\ handle' = "closed"
    /\ registered' = {}
    /\ openHandles' = openHandles - 1
    /\ orphans' = IF debounce.armed THEN orphans \cup {debounce.left} ELSE orphans
    /\ debounce' = StoppedTimer
    /\ ObserveSession(cfg.Debounce)
    /\ pc' = "open"
    /\ UNCHANGED <<cfgVars, result, cancelled, nWatchers, toAdd, evBudget,
                   failBudget, retryLeft, multiTimerVars, changeAfterCancel,
                   changeAfterReturn, onEventCalled, evTarget>>

\* the runtime's side of the session's timer: at expiry it sends on debounce.C
Watch_TimerExpires ==
    /\ debounce.armed /\ debounce.left = 0
    /\ debounce' = [armed |-> FALSE, left |-> 0, C |-> TRUE]
    /\ UNCHANGED <<cfgVars, pc, result, cancelled, handleVars, toAdd, envVars,
                   failBudget, retryLeft, orphans, multiTimerVars, obsVars, nOnError,
                   onEventCalled, evTarget>>

\* a timer of a torn-down session expires: nobody reads its channel
Watch_OrphanExpires ==
    /\ 0 \in orphans
    /\ orphans' = orphans \ {0}
    /\ UNCHANGED <<cfgVars, pc, result, cancelled, handleVars, toAdd, envVars,
                   failBudget, retryLeft, debounce, multiTimerVars, obsVars, nOnError,
                   onEventCalled, evTarget>>

(***************************************************************************)
(* WatchMultiple.                                                         *)
(***************************************************************************)
\* a grouping that keeps only the directory of the first target
DirToFilesFirstOnly(files) ==
    [d \in {Dir(files[i]) : i \in {1} \cap DOMAIN files} |->
        SelectSeq(files, LAMBDA f : Dir(f) = d)]

\* dirToFiles: directory -> the targets in it, in the order given
DirToFiles(files) ==
    [d \in {Dir(files[i]) : i \in 1..Len(files)} |->
        SelectSeq(files, LAMBDA f : Dir(f) = d)]

\* make(chan string, len(cfg.TargetFiles))
QueueCap == Len(cfg.TargetFiles)

\* the queue of the session the loop is in
debouncedEvents == queues[Len(queues)]

\* the paths the session's map has an entry for
activeTimers == {t.path : t \in {u \in timers : u.inMap /\ u.q = Len(queues)}}

\* a validation that announces the watch before it checks the configuration
WatchMultiple_ValidateAnnouncesFirst ==
    /\ mode = "WatchMultiple" /\ pc = "start"
    /\ cfg' = WithDefaults(cfg)
    /\ IF ~cfg.OnChange
          THEN pc' = "returned" /\ result' = "errOnChange"
          ELSE IF Len(cfg.TargetFiles) = 0
                  THEN pc' = "returned" /\ result' = "errNoTargets"
                  ELSE pc' = "open" /\ result' = result
    /\ ObserveSession(cfg'.Debounce)
    /\ CallOnEvent(TRUE)
    /\ UNCHANGED <<mode, asyncTimerChan, cancelled, handleVars, toAdd, envVars,
                   failBudget, retryLeft, watchTimerVars, multiTimerVars,
                   changeAfterCancel, changeAfterReturn, nOnError, evTarget>>

\* a validation without the empty-list check
WatchMultiple_ValidateAcceptsEmpty ==
    /\ mode = "WatchMultiple" /\ pc = "start"
    /\ cfg' = WithDefaults(cfg)
    /\ IF ~cfg.OnChange
          THEN pc' = "returned" /\ result' = "errOnChange"
          ELSE pc' = "open" /\ result' = result
    /\ ObserveSession(cfg'.Debounce)
    /\ CallOnEvent(cfg.OnChange)
    /\ UNCHANGED <<mode, asyncTimerChan, cancelled, handleVars, toAdd, envVars,
                   failBudget, retryLeft, watchTimerVars, multiTimerVars,
                   changeAfterCancel, changeAfterReturn, nOnError, evTarget>>

\* the defaults, the OnChange check, the empty-list check
WatchMultiple_Validate ==
    /\ mode = "WatchMultiple" /\ pc = "start"
    /\ cfg' = WithDefaults(cfg)
    /\ IF ~cfg.OnChange
          THEN pc' = "returned" /\ result' = "errOnChange"
          ELSE IF Len(cfg.TargetFiles) = 0
                  THEN pc' = "returned" /\ result' = "errNoTargets"
                  ELSE pc' = "open" /\ result' = result
    /\ ObserveSession(cfg'.Debounce)
    /\ CallOnEvent(cfg.OnChange /\ Len(cfg.TargetFiles) # 0)
    /\ UNCHANGED <<mode, asyncTimerChan, cancelled, handleVars, toAdd, envVars,
                   failBudget, retryLeft, watchTimerVars, multiTimerVars,
                   changeAfterCancel, changeAfterReturn, nOnError, evTarget>>

\* fsnotify.NewWatcher() and its failure branch
WatchMultiple_NewWatcher(ok) ==
    /\ mode = "WatchMultiple" /\ pc = "open"
    /\ IF ok
          THEN /\ handle' = "open"
               /\ registered' = {}
               /\ openHandles' = openHandles + 1
               /\ nWatchers' = nWatchers + 1
               /\ toAdd' = DOMAIN DirToFiles(cfg.TargetFiles)
               /\ pc' = "add"
               /\ UNCHANGED <<failBudget, retryLeft, nOnError>>
          ELSE /\ failBudget > 0
               /\ failBudget' = failBudget - 1
               /\ CallOnError
               /\ retryLeft' = cfg.RetryDelay
               /\ pc' = "retry"
               /\ UNCHANGED <<handleVars, toAdd>>
    /\ UNCHANGED <<cfgVars, result, cancelled, envVars, watchTimerVars,
                   multiTimerVars, obsVars, onEventCalled, evTarget>>

\* after a failed NewWatcher: case <-time.After(cfg.RetryDelay): continue
WatchMultiple_RetryElapsed ==
    /\ mode = "WatchMultiple" /\ pc = "retry"
    /\ retryLeft = 0
    /\ pc' = "open"
    /\ UNCHANGED <<cfgVars, result, cancelled, handleVars, toAdd, envVars,
                   failBudget, retryLeft, watchTimerVars, multiTimerVars, obsVars,
                   nOnError, onEventCalled, evTarget>>

\* after a failed NewWatcher or Add: case <-ctx.Done(): return ctx.Err()
WatchMultiple_RetryCancelled ==
    /\ mode = "WatchMultiple" /\ pc \in {"retry", "retryAdd"}
    /\ cancelled
    /\ ReturnCtxErr
    /\ UNCHANGED <<cfgVars, cancelled, handleVars, toAdd, retryLeft, watchTimerVars,
                   multiTimerVars, obsVars, nOnError, onEventCalled, evTarget>>

\* one iteration of "for dir := range dirToFiles": w.Add(dir) and its failure
\* branch.  Add on a closed watcher fails.
WatchMultiple_Add(dir, ok) ==
    /\ mode = "WatchMultiple" /\ pc = "add"
    /\ dir \in toAdd
    /\ toAdd' = toAdd \ {dir}
    /\ IF ok
          THEN /\ handle = "open"
               /\ registered' = registered \cup {dir}
               /\ UNCHANGED <<pc, handle, openHandles, failBudget, retryLeft, nOnError>>
          ELSE /\ handle = "open" => failBudget > 0
               /\ failBudget' = IF handle = "open" THEN failBudget - 1 ELSE failBudget
               /\ CallOnError
               /\ handle' = "closed"
               /\ registered' = {}
               /\ openHandles' = IF handle = "open" THEN openHandles - 1 ELSE openHandles
               /\ retryLeft' = cfg.RetryDelay
               /\ pc' = "retryAdd"
    /\ CallOnEvent(ok)
    /\ UNCHANGED <<cfgVars, result, cancelled, nWatchers, envVars, watchTimerVars,
                   multiTimerVars, obsVars, evTarget>>

\* after a failed Add: case <-time.After(cfg.RetryDelay): continue, which
\* continues the innermost loop, the range over dirToFiles
WatchMultiple_AddRetryElapsed ==
    /\ mode = "WatchMultiple" /\ pc = "retryAdd"
    /\ retryLeft = 0
    /\ pc' = "add"
    /\ UNCHANGED <<cfgVars, result, cancelled, handleVars, toAdd, envVars,
                   failBudget, retryLeft, watchTimerVars, multiTimerVars, obsVars,
                   nOnError, onEventCalled, evTarget>>

\* the range loop is over: debouncedEvents, activeTimers, timerMutex are made
WatchMultiple_EnterLoop ==
    /\ mode = "WatchMultiple" /\ pc = "add"
    /\ toAdd = {}
    /\ queues' = Append(queues, << >>)
    /\ pc' = "select"
    /\ UNCHANGED <<cfgVars, result, cancelled, handleVars, toAdd, envVars,
                   failBudget, retryLeft, watchTimerVars, timers, obsVars,
                   nOnError, onEventCalled, evTarget>>

\* timer.Stop() on every timer of the map: an armed timer is cancelled, one
\* whose function already runs is not affected
StopAll(ts, q) ==
    {t \in ts : ~(t.st = "armed" /\ t.inMap /\ t.q = q)}

\* case <-ctx.Done()
WatchMultiple_Cancelled ==
    /\ mode = "WatchMultiple" /\ pc = "select"
    /\ cancelled
    /\ handle' = "closed"
    /\ registered' = {}
    /\ openHandles' = IF handle = "open" THEN openHandles - 1 ELSE openHandles
    /\ timers' = StopAll(timers, Len(queues))
    /\ ReturnCtxErr
    /\ UNCHANGED <<cfgVars, cancelled, nWatchers, toAdd, retryLeft, watchTimerVars,
                   queues, obsVars, nOnError, onEventCalled, evTarget>>

\* the first targetFile of cfg.TargetFiles the event is for (0: none)
MatchIndex(ev) ==
    LET hits == {i \in 1..Len(cfg.TargetFiles) : IsRelevant(ev, cfg.TargetFiles[i])}
    IN  IF hits = {} THEN 0 ELSE CHOOSE i \in hits : \A j \in hits : i <= j

\* a reschedule that does not stop the timer it replaces
RescheduleKeepsOld(ts, target, q, d) ==
    {[t EXCEPT !.inMap = t.inMap /\ ~(t.path = target /\ t.q = q)] : t \in ts}
    \cup {[path |-> target, left |-> d, st |-> "armed", q |-> q, inMap |-> TRUE]}

\* a reschedule that stops the pending timer of every path
RescheduleStopsAll(ts, target, q, d) ==
    {t \in ts : ~(t.inMap /\ t.q = q /\ (t.st = "armed" \/ t.path = target))}
    \cup {[t EXCEPT !.inMap = FALSE] :
            t \in {u \in ts : u.inMap /\ u.path = target /\ u.q = q /\ u.st # "armed"}}
    \cup {[path |-> target, left |-> d, st |-> "armed", q |-> q, inMap |-> TRUE]}

\* existingTimer.Stop(); activeTimers[targetFile] = time.AfterFunc(...):
\* the map's timer for the target is cancelled if it is still armed (one whose
\* function already runs only loses its place in the map), and the new one is
\* the map's timer
Reschedule(ts, target, q, d) ==
    {t \in ts : ~(t.inMap /\ t.path = target /\ t.q = q)}
    \cup {[t EXCEPT !.inMap = FALSE] :
            t \in {u \in ts : u.inMap /\ u.path = target /\ u.q = q /\ u.st # "armed"}}
    \cup {[path |-> target, left |-> d, st |-> "armed", q |-> q, inMap |-> TRUE]}

\* case ev := <-w.Events
WatchMultiple_Event(ev) ==
    /\ mode = "WatchMultiple" /\ pc = "select"
    /\ handle = "open"
    /\ evBudget > 0
    /\ Dir(ev.Name) \in registered
    /\ evBudget' = evBudget - 1
    /\ IF MatchIndex(ev) # 0
          THEN LET targetFile == cfg.TargetFiles[MatchIndex(ev)]
               IN  /\ timers' = Reschedule(timers, targetFile, Len(queues), cfg.Debounce)
                   /\ ObserveEvent(targetFile)
          ELSE UNCHANGED <<timers, burstVars, owed>>
    /\ CallOnEvent(MatchIndex(ev) # 0)
    /\ UNCHANGED <<cfgVars, pc, result, cancelled, handleVars, toAdd, errBudget,
                   failBudget, retryLeft, watchTimerVars, queues, changeVars,
                   nOnError, evTarget>>

\* a delivery that calls OnChange once for every entry of TargetFiles that
\* names the settled file
WatchMultiple_SettledPerEntry ==
    /\ mode = "WatchMultiple" /\ pc = "select"
    /\ debouncedEvents # << >>
    /\ LET file == Head(debouncedEvents)
           k == Cardinality({i \in DOMAIN cfg.TargetFiles : cfg.TargetFiles[i] = file})
       IN  /\ fires' = [fires EXCEPT ![file] = IF cancelled THEN @ ELSE @ + k]
           /\ nChange' = [nChange EXCEPT ![file] = IF cancelled THEN @ ELSE @ + k]
           /\ owed' = [owed EXCEPT ![file] = FALSE]
           /\ changeAfterCancel' = (changeAfterCancel \/ cancelled)
           /\ changeAfterReturn' = (changeAfterReturn \/ pc = "returned")
    /\ queues' = [queues EXCEPT ![Len(queues)] = Tail(@)]
    /\ CallOnEvent(TRUE)
    /\ UNCHANGED <<cfgVars, pc, result, cancelled, handleVars, toAdd, envVars,
                   failBudget, retryLeft, watchTimerVars, timers, since, clean,
                   dirty, nBursts, nEvents, nOnError, evTarget>>

\* case file := <-debouncedEvents
WatchMultiple_Settled ==
    /\ mode = "WatchMultiple" /\ pc = "select"
    /\ debouncedEvents # << >>
    /\ ObserveChange(Head(debouncedEvents))
    /\ queues' = [queues EXCEPT ![Len(queues)] = Tail(@)]
    /\ CallOnEvent(TRUE)
    /\ UNCHANGED <<cfgVars, pc, result, cancelled, handleVars, toAdd, envVars,
                   failBudget, retryLeft, watchTimerVars, timers, since, clean,
                   dirty, nBursts, nEvents, nOnError, evTarget>>

\* case err := <-w.Errors; break loop; w.Close().  A closed watcher's Errors
\* channel is closed and yields nil.
WatchMultiple_Error(isNil) ==
    /\ mode = "WatchMultiple" /\ pc = "select"
    /\ IF isNil
          THEN /\ handle = "closed"
               /\ UNCHANGED <<errBudget, nOnError>>
          ELSE /\ handle = "open"
               /\ errBudget > 0
               /\ errBudget' = errBudget - 1
               /\ CallOnError
    /\ handle' = "closed"
    /\ registered' = {}
    /\ openHandles' = IF handle = "open" THEN openHandles - 1 ELSE openHandles
    /\ ObserveSession(cfg.Debounce)
    /\ pc' = "open"
    /\ UNCHANGED <<cfgVars, result, cancelled, nWatchers, toAdd, evBudget,
                   failBudget, retryLeft, watchTimerVars, multiTimerVars,
                   changeAfterCancel, changeAfterReturn, onEventCalled, evTarget>>

(***************************************************************************)
(* The function passed to time.AfterFunc, run by the runtime in its own   *)
(* goroutine when the timer expires.                                      *)
(***************************************************************************)
\* the timer expires and its function starts
AfterFunc_Expires(t) ==
    /\ t \in timers
    /\ t.st = "armed" /\ t.left = 0
    /\ timers' = (timers \ {t}) \cup {[t EXCEPT !.st = "fired"]}
    /\ UNCHANGED <<cfgVars, pc, result, cancelled, handleVars, toAdd, envVars,
                   failBudget, retryLeft, watchTimerVars, queues, obsVars,
                   nOnError, onEventCalled, evTarget>>

\* a post that is dropped when a settlement is already queued
AfterFunc_SendOrDrop(t) ==
    /\ t \in timers
    /\ t.st = "fired"
    /\ queues' = [queues EXCEPT ![t.q] = IF @ = << >> THEN <<t.path>> ELSE @]
    /\ timers' = (timers \ {t}) \cup {[t EXCEPT !.st = "sent"]}
    /\ UNCHANGED <<cfgVars, pc, result, cancelled, handleVars, toAdd, envVars,
                   failBudget, retryLeft, watchTimerVars, obsVars, nOnError,
                   onEventCalled, evTarget>>

\* a timer function that reports its send through OnError
AfterFunc_SendCallsOnError(t) ==
    /\ t \in timers
    /\ t.st = "fired"
    /\ Len(queues[t.q]) < QueueCap
    /\ queues' = [queues EXCEPT ![t.q] = Append(@, t.path)]
    /\ timers' = (timers \ {t}) \cup {[t EXCEPT !.st = "sent"]}
    /\ nOnError' = IF nOnError < MaxErrors + MaxFails + 2 THEN nOnError + 1 ELSE nOnError
    /\ UNCHANGED <<cfgVars, pc, result, cancelled, handleVars, toAdd, envVars,
                   failBudget, retryLeft, watchTimerVars, obsVars,
                   onEventCalled, evTarget>>

\* a timer function that calls OnChange itself
AfterFunc_SendCallsOnChange(t) ==
    /\ t \in timers
    /\ t.st = "fired"
    /\ ObserveChange(t.path)
    /\ timers' = (timers \ {t}) \cup {[t EXCEPT !.st = "sent"]}
    /\ UNCHANGED <<cfgVars, pc, result, cancelled, handleVars, toAdd, envVars,
                   failBudget, retryLeft, watchTimerVars, queues, since, clean,
                   dirty, nBursts, nEvents, nOnError, onEventCalled, evTarget>>

\* debouncedEvents <- targetFile (blocks while the queue is full)
AfterFunc_Send(t) ==
    /\ t \in timers
    /\ t.st = "fired"
    /\ Len(queues[t.q]) < QueueCap
    /\ queues' = [queues EXCEPT ![t.q] = Append(@, t.path)]
    /\ timers' = (timers \ {t}) \cup {[t EXCEPT !.st = "sent"]}
    /\ UNCHANGED <<cfgVars, pc, result, cancelled, handleVars, toAdd, envVars,
                   failBudget, retryLeft, watchTimerVars, obsVars, nOnError,
                   onEventCalled, evTarget>>

\* delete(activeTimers, targetFile): the map of the function's own session
\* loses its entry for the path, whichever timer the entry holds
DeleteEntry(ts, t) ==
    {IF u.q = t.q /\ u.path = t.path THEN [u EXCEPT !.inMap = FALSE] ELSE u : u \in ts}

\* timerMutex.Lock(); delete(activeTimers, targetFile); timerMutex.Unlock()
AfterFunc_Delete(t) ==
    /\ t \in timers
    /\ t.st = "sent"
    /\ timers' = DeleteEntry(timers \ {t}, t)
    /\ UNCHANGED <<cfgVars, pc, result, cancelled, handleVars, toAdd, envVars,
                   failBudget, retryLeft, watchTimerVars, queues, obsVars,
                   nOnError, onEventCalled, evTarget>>

(***************************************************************************)
(* WatchMultiple statement by statement around timerMutex: the event      *)
(* handler, the timer function and the ctx.Done() case take the mutex,   *)
(* work on activeTimers and release it in steps of their own, so that the *)
(* other goroutines run in between.                                       *)
(***************************************************************************)
\* the loop is between timerMutex.Lock() and timerMutex.Unlock()
LoopHoldsMutex == pc \in {"evLocked", "doneLocked"}

\* the timers of session q whose functions are between Lock() and Unlock()
FuncsHoldingMutex(q) == {t \in timers : t.q = q /\ t.st = "locked"}

\* timerMutex := sync.Mutex{}: every session has a mutex of its own, the loop
\* takes that of the current session and a timer function that of the session
\* that created the timer; Lock() returns only when nobody holds the mutex
MutexFree(q) == ~(LoopHoldsMutex /\ q = Len(queues)) /\ FuncsHoldingMutex(q) = {}

\* case ev := <-w.Events, the range over cfg.TargetFiles up to the first match
\* and its OnEvent call
WatchMultiple_EventMatch(ev) ==
    /\ mode = "WatchMultiple" /\ pc = "select"
    /\ handle = "open"
    /\ evBudget > 0
    /\ Dir(ev.Name) \in registered
    /\ evBudget' = evBudget - 1
    /\ IF MatchIndex(ev) # 0
          THEN /\ evTarget' = cfg.TargetFiles[MatchIndex(ev)]
               /\ pc' = "evLock"
          ELSE UNCHANGED <<evTarget, pc>>
    /\ CallOnEvent(MatchIndex(ev) # 0)
    /\ UNCHANGED <<cfgVars, result, cancelled, handleVars, toAdd, errBudget,
                   failBudget, retryLeft, watchTimerVars, multiTimerVars, obsVars,
                   nOnError>>

\* a handler that works on the map without waiting for the mutex
WatchMultiple_EventNoLock ==
    /\ mode = "WatchMultiple" /\ pc = "evLock"
    /\ timers' = Reschedule(timers, evTarget, Len(queues), cfg.Debounce)
    /\ ObserveEvent(evTarget)
    /\ pc' = "select"
    /\ evTarget' = NoPath
    /\ UNCHANGED <<cfgVars, result, cancelled, handleVars, toAdd, envVars,
                   failBudget, retryLeft, watchTimerVars, queues, changeVars,
                   nOnError, onEventCalled>>

\* timerMutex.Lock() of the event handler
WatchMultiple_EventLock ==
    /\ mode = "WatchMultiple" /\ pc = "evLock"
    /\ MutexFree(Len(queues))
    /\ pc' = "evLocked"
    /\ UNCHANGED <<cfgVars, result, cancelled, handleVars, toAdd, envVars,
                   failBudget, retryLeft, watchTimerVars, multiTimerVars, obsVars,
                   nOnError, onEventCalled, evTarget>>

\* a handler that waits for a settlement before it releases the mutex
WatchMultiple_EventRescheduleReceives ==
    /\ mode = "WatchMultiple" /\ pc = "evLocked"
    /\ debouncedEvents # << >>
    /\ timers' = Reschedule(timers, evTarget, Len(queues), cfg.Debounce)
    /\ ObserveEvent(evTarget)
    /\ ObserveChange(Head(debouncedEvents))
    /\ queues' = [queues EXCEPT ![Len(queues)] = Tail(@)]
    /\ pc' = "select"
    /\ evTarget' = NoPath
    /\ UNCHANGED <<cfgVars, result, cancelled, handleVars, toAdd, envVars,
                   failBudget, retryLeft, watchTimerVars,
                   nOnError, onEventCalled>>

\* the lookup, existingTimer.Stop(), the new time.AfterFunc stored in the map,
\* timerMutex.Unlock() and break
WatchMultiple_EventReschedule ==
    /\ mode = "WatchMultiple" /\ pc = "evLocked"
    /\ timers' = Reschedule(timers, evTarget, Len(queues), cfg.Debounce)
    /\ ObserveEvent(evTarget)
    /\ pc' = "select"
    /\ evTarget' = NoPath
    /\ UNCHANGED <<cfgVars, result, cancelled, handleVars, toAdd, envVars,
                   failBudget, retryLeft, watchTimerVars, queues, changeVars,
                   nOnError, onEventCalled>>

\* case <-ctx.Done(): w.Close()
WatchMultiple_Done ==
    /\ mode = "WatchMultiple" /\ pc = "select"
    /\ cancelled
    /\ handle' = "closed"
    /\ registered' = {}
    /\ openHandles' = IF handle = "open" THEN openHandles - 1 ELSE openHandles
    /\ pc' = "doneLock"
    /\ UNCHANGED <<cfgVars, result, cancelled, nWatchers, toAdd, envVars, failBudget,
                   retryLeft, watchTimerVars, multiTimerVars, obsVars, nOnError,
                   onEventCalled, evTarget>>

\* timerMutex.Lock() of the ctx.Done() case
WatchMultiple_DoneLock ==
    /\ mode = "WatchMultiple" /\ pc = "doneLock"
    /\ MutexFree(Len(queues))
    /\ pc' = "doneLocked"
    /\ UNCHANGED <<cfgVars, result, cancelled, handleVars, toAdd, envVars,
                   failBudget, retryLeft, watchTimerVars, multiTimerVars, obsVars,
                   nOnError, onEventCalled, evTarget>>

\* the range over activeTimers with timer.Stop(), timerMutex.Unlock() and
\* return ctx.Err()
WatchMultiple_DoneStopAll ==
    /\ mode = "WatchMultiple" /\ pc = "doneLocked"
    /\ timers' = StopAll(timers, Len(queues))
    /\ ReturnCtxErr
    /\ UNCHANGED <<cfgVars, cancelled, handleVars, toAdd, retryLeft, watchTimerVars,
                   queues, obsVars, nOnError, onEventCalled, evTarget>>

\* timerMutex.Lock() of a timer function, after its send
AfterFunc_Lock(t) ==
    /\ t \in timers
    /\ t.st = "sent"
    /\ MutexFree(t.q)
    /\ timers' = (timers \ {t}) \cup {[t EXCEPT !.st = "locked"]}
    /\ UNCHANGED <<cfgVars, pc, result, cancelled, handleVars, toAdd, envVars,
                   failBudget, retryLeft, watchTimerVars, queues, obsVars,
                   nOnError, onEventCalled, evTarget>>

\* delete(activeTimers, targetFile); timerMutex.Unlock()
AfterFunc_DeleteUnlock(t) ==
    /\ t \in timers
    /\ t.st = "locked"
    /\ timers' = DeleteEntry(timers \ {t}, t)
    /\ UNCHANGED <<cfgVars, pc, result, cancelled, handleVars, toAdd, envVars,
                   failBudget, retryLeft, watchTimerVars, queues, obsVars,
                   nOnError, onEventCalled, evTarget>>

(***************************************************************************)
(* The caller's context and time.                                         *)
(***************************************************************************)
\* the caller cancels ctx
Cancel ==
    /\ ~cancelled
    /\ pc # "returned"
    /\ cancelled' = TRUE
    /\ since' = [t \in Targets |-> LongAgo]
    /\ clean' = [t \in Targets |-> FALSE]
    /\ dirty' = [t \in Targets |-> TRUE]
    /\ fires' = [t \in Targets |-> 0]
    /\ nBursts' = [t \in Targets |-> 0]
    /\ nEvents' = [t \in Targets |-> 0]
    /\ nChange' = [t \in Targets |-> 0]
    /\ owed' = [t \in Targets |-> FALSE]
    /\ UNCHANGED <<cfgVars, pc, result, handleVars, toAdd, envVars, failBudget,
                   retryLeft, watchTimerVars, multiTimerVars, changeAfterCancel,
                   changeAfterReturn, nOnError, onEventCalled, evTarget>>

\* the coordinating loop can take a step at this instant without any new
\* input from the event source
LoopReady ==
    \/ pc \in {"start", "open", "add"}
    \/ pc \in {"evLock", "doneLock"} /\ MutexFree(Len(queues))
    \/ LoopHoldsMutex
    \/ pc \in {"retry", "retryAdd"} /\ (cancelled \/ retryLeft = 0)
    \/ pc = "sleep" /\ retryLeft = 0
    \/ pc = "select" /\ (cancelled \/ handle = "closed" \/ debounce.C
                          \/ (mode = "WatchMultiple" /\ debouncedEvents # << >>))

\* a timer or a timer function can take a step at this instant
TimerReady ==
    \/ debounce.armed /\ debounce.left = 0
    \/ 0 \in orphans
    \/ \E t \in timers :
          \/ t.st = "armed" /\ t.left = 0
          \/ t.st = "fired" /\ Len(queues[t.q]) < QueueCap
          \/ t.st = "sent" /\ MutexFree(t.q)
          \/ t.st = "locked"

\* something still measures time
Counting ==
    \/ debounce.armed
    \/ orphans # {}
    \/ \E t \in timers : t.st = "armed"
    \/ pc \in {"retry", "retryAdd", "sleep"}
    \/ pc = "select" /\ \E t \in Targets : since[t] < LongAgo

\* one time unit passes
Tick ==
    /\ ~LoopReady /\ ~TimerReady
    /\ Counting
    /\ debounce' = IF debounce.armed THEN [debounce EXCEPT !.left = @ - 1] ELSE debounce
    /\ orphans' = {l - 1 : l \in orphans}
    /\ timers' = {IF t.st = "armed" THEN [t EXCEPT !.left = @ - 1] ELSE t : t \in timers}
    /\ retryLeft' = IF pc \in {"retry", "retryAdd", "sleep"} THEN retryLeft - 1
                                                                  ELSE retryLeft
    /\ since' = [t \in Targets |-> IF since[t] < LongAgo THEN since[t] + 1 ELSE since[t]]
    /\ UNCHANGED <<cfgVars, pc, result, cancelled, handleVars, toAdd, envVars,
                   failBudget, queues, clean, dirty, fires,
                   nBursts, nEvents, changeVars, owed, nOnError, onEventCalled, evTarget>>

WatchStep ==
    \/ Watch_Validate
    \/ \E ok \in BOOLEAN : Watch_NewWatcher(ok)
    \/ Watch_RetryElapsed
    \/ Watch_RetryCancelled
    \/ \E ok \in BOOLEAN : Watch_Add(ok)
    \/ Watch_Cancelled
    \/ \E ev \in RawEvents : Watch_Event(ev)
    \/ Watch_Debounce
    \/ Watch_Error

WatchMultipleStep ==
    \/ WatchMultiple_Validate
    \/ \E ok \in BOOLEAN : WatchMultiple_NewWatcher(ok)
    \/ WatchMultiple_RetryElapsed
    \/ WatchMultiple_RetryCancelled
    \/ \E dir \in {Dir(f) : f \in AllPaths}, ok \in BOOLEAN : WatchMultiple_Add(dir, ok)
    \/ WatchMultiple_AddRetryElapsed
    \/ WatchMultiple_EnterLoop
    \/ WatchMultiple_Cancelled
    \/ \E ev \in RawEvents : WatchMultiple_Event(ev)
    \/ WatchMultiple_Settled
    \/ \E isNil \in BOOLEAN : WatchMultiple_Error(isNil)

TimerStep ==
    \/ Watch_TimerExpires
    \/ Watch_OrphanExpires
    \/ \E t \in timers : AfterFunc_Expires(t)
    \/ \E t \in timers : AfterFunc_Send(t)
    \/ \E t \in timers : AfterFunc_Delete(t)

Next ==
    \/ WatchStep
    \/ WatchMultipleStep
    \/ TimerStep
    \/ Cancel
    \/ Tick

Spec == Init /\ [][Next]_vars

\* the steps the coordinating loop takes by itself once they are possible: it
\* needs no further input from the event source for them
LoopProgress ==
    \/ Watch_Validate
    \/ \E ok \in BOOLEAN : Watch_NewWatcher(ok)
    \/ Watch_RetryElapsed
    \/ Watch_RetryCancelled
    \/ \E ok \in BOOLEAN : Watch_Add(ok)
    \/ Watch_Cancelled
    \/ Watch_Debounce
    \/ WatchMultiple_Validate
    \/ \E ok \in BOOLEAN : WatchMultiple_NewWatcher(ok)
    \/ WatchMultiple_RetryElapsed
    \/ WatchMultiple_RetryCancelled
    \/ \E dir \in {Dir(f) : f \in AllPaths}, ok \in BOOLEAN : WatchMultiple_Add(dir, ok)
    \/ WatchMultiple_AddRetryElapsed
    \/ WatchMultiple_EnterLoop
    \/ WatchMultiple_Cancelled
    \/ WatchMultiple_Settled
    \/ WatchMultiple_Error(TRUE)

\* Watch alone, with an environment that lets creation and registration fail
\* repeatedly
WatchRetryInit == InitWith(MaxEvents, MaxErrors, MaxRetryFails) /\ mode = "Watch"

WatchTimerStep ==
    \/ Watch_TimerExpires
    \/ Watch_OrphanExpires

WatchNext ==
    \/ WatchStep
    \/ WatchTimerStep
    \/ Cancel
    \/ Tick

WatchRetrySpec ==
    /\ WatchRetryInit /\ [][WatchNext]_vars
    /\ WF_vars(LoopProgress)
    /\ WF_vars(WatchTimerStep)
    /\ WF_vars(Tick)

(***************************************************************************)
(* SelfMonitor: Watch on the path of the running executable.              *)
(***************************************************************************)
\* the SelfMonitorConfig values a caller passes
SelfMonitorConfigs ==
    [OnReload : BOOLEAN, OnEvent : {TRUE}, OnError : BOOLEAN,
     Debounce : DebounceOrUnset, RetryDelay : RetryDelayOrUnset]

\* the path os.Executable() returns
Executable == FileA

\* an os.Executable() failure that is reported and tried again
SelfMonitor_ExecutableRetries(ok) ==
    /\ mode = "SelfMonitor" /\ pc = "start"
    /\ IF ok
          THEN /\ mode' = "Watch"
               /\ cfg' = [TargetFiles |-> <<Executable>>,
                          OnChange |-> cfg.OnReload,
                          Debounce |-> cfg.Debounce,
                          RetryDelay |-> cfg.RetryDelay,
                          OnEvent |-> cfg.OnEvent,
                          OnError |-> cfg.OnError]
               /\ UNCHANGED <<nOnError, failBudget>>
          ELSE /\ failBudget > 0
               /\ failBudget' = failBudget - 1
               /\ CallOnError
               /\ UNCHANGED <<mode, cfg>>
    /\ UNCHANGED <<asyncTimerChan, pc, result, cancelled, handleVars, toAdd, envVars,
                   retryLeft, watchTimerVars, multiTimerVars, obsVars, onEventCalled,
                   evTarget>>

\* os.Executable(), its error return, and the call of Watch
SelfMonitor_Executable(ok) ==
    /\ mode = "SelfMonitor" /\ pc = "start"
    /\ IF ok
          THEN /\ mode' = "Watch"
               /\ cfg' = [TargetFiles |-> <<Executable>>,
                          OnChange |-> cfg.OnReload,
                          Debounce |-> cfg.Debounce,
                          RetryDelay |-> cfg.RetryDelay,
                          OnEvent |-> cfg.OnEvent,
                          OnError |-> cfg.OnError]
               /\ UNCHANGED <<pc, result>>
          ELSE /\ pc' = "returned"
               /\ result' = "exeErr"
               /\ UNCHANGED <<mode, cfg>>
    /\ UNCHANGED <<asyncTimerChan, cancelled, handleVars, toAdd, envVars, failBudget,
                   retryLeft, watchTimerVars, multiTimerVars, obsVars, nOnError,
                   onEventCalled, evTarget>>

SelfMonitorInit ==
    /\ mode = "SelfMonitor"
    /\ asyncTimerChan \in BOOLEAN
    /\ cfg \in SelfMonitorConfigs
    /\ InitRest(MaxEvents, MaxErrors, MaxFails)

SelfMonitorNext ==
    \/ \E ok \in BOOLEAN : SelfMonitor_Executable(ok)
    \/ WatchNext

SelfMonitorSpec == SelfMonitorInit /\ [][SelfMonitorNext]_vars

\* callers with and without OnEvent and OnError
AdvisoryWatchConfigs ==
    [OnChange : {TRUE}, OnEvent : BOOLEAN, OnError : BOOLEAN, TargetFiles : {<<FileA>>},
     Debounce : DebounceInputs, RetryDelay : RetryDelayInputs]

AdvisoryMultiConfigs ==
    [OnChange : {TRUE}, OnEvent : BOOLEAN, OnError : BOOLEAN,
     TargetFiles : {<<FileA, FileB>>},
     Debounce : DebounceInputs, RetryDelay : RetryDelayInputs]

AdvisoryInit ==
    InitFrom(AdvisoryWatchConfigs, AdvisoryMultiConfigs,
             MaxAdvisoryEvents, MaxErrors, MaxFails)

AdvisorySpec == AdvisoryInit /\ [][Next]_vars

\* WatchMultiple with the statements around timerMutex as steps of their own
MutexInit == InitWith(MaxMutexEvents, MaxErrors, MaxFails) /\ mode = "WatchMultiple"

MutexNext ==
    \/ WatchMultiple_Validate
    \/ \E ok \in BOOLEAN : WatchMultiple_NewWatcher(ok)
    \/ WatchMultiple_RetryElapsed
    \/ WatchMultiple_RetryCancelled
    \/ \E dir \in {Dir(f) : f \in AllPaths}, ok \in BOOLEAN : WatchMultiple_Add(dir, ok)
    \/ WatchMultiple_AddRetryElapsed
    \/ WatchMultiple_EnterLoop
    \/ WatchMultiple_Done
    \/ WatchMultiple_DoneLock
    \/ WatchMultiple_DoneStopAll
    \/ \E ev \in RawEvents : WatchMultiple_EventMatch(ev)
    \/ WatchMultiple_EventLock
    \/ WatchMultiple_EventReschedule
    \/ WatchMultiple_Settled
    \/ \E isNil \in BOOLEAN : WatchMultiple_Error(isNil)
    \/ \E t \in timers : AfterFunc_Expires(t)
    \/ \E t \in timers : AfterFunc_Send(t)
    \/ \E t \in timers : AfterFunc_Lock(t)
    \/ \E t \in timers : AfterFunc_DeleteUnlock(t)
    \/ Cancel
    \/ Tick

MutexSpec == MutexInit /\ [][MutexNext]_vars

\* the steps of the loop of MutexSpec that need nothing from the environment
MutexLoopProgress ==
    \/ WatchMultiple_Validate
    \/ \E ok \in BOOLEAN : WatchMultiple_NewWatcher(ok)
    \/ WatchMultiple_RetryElapsed
    \/ WatchMultiple_RetryCancelled
    \/ \E dir \in {Dir(f) : f \in AllPaths}, ok \in BOOLEAN : WatchMultiple_Add(dir, ok)
    \/ WatchMultiple_AddRetryElapsed
    \/ WatchMultiple_EnterLoop
    \/ WatchMultiple_Done
    \/ WatchMultiple_DoneLock
    \/ WatchMultiple_DoneStopAll
    \/ WatchMultiple_EventLock
    \/ WatchMultiple_EventReschedule
    \/ WatchMultiple_Settled
    \/ WatchMultiple_Error(TRUE)

\* the steps of the timers and of their functions
MutexTimerStep ==
    \/ \E t \in timers : AfterFunc_Expires(t)
    \/ \E t \in timers : AfterFunc_Send(t)
    \/ \E t \in timers : AfterFunc_Lock(t)
    \/ \E t \in timers : AfterFunc_DeleteUnlock(t)

\* MutexSpec with the loop, the timer functions and the clock scheduled fairly
FairMutexSpec ==
    /\ MutexSpec
    /\ WF_vars(MutexLoopProgress)
    /\ WF_vars(MutexTimerStep)
    /\ WF_vars(Tick)

\* callers that leave Debounce or RetryDelay unset, or set them
DefaultsInit ==
    InitFrom(WatchConfigsOf(DebounceOrUnset, RetryDelayOrUnset),
             MultiConfigsOf(DebounceOrUnset, RetryDelayOrUnset),
             MaxDefaultsEvents, MaxErrors, MaxFails)

DefaultsSpec == DefaultsInit /\ [][Next]_vars

\* the goroutine of the loop is scheduled, the runtime fires timers and runs
\* their functions, and time passes
FairSpec ==
    /\ Spec
    /\ WF_vars(LoopProgress)
    /\ WF_vars(TimerStep)
    /\ WF_vars(Tick)

(***************************************************************************)
(* Properties.                                                            *)
(*                                                                         *)
(* A burst is a run of relevant events on one path, each less than the    *)
(* settle delay after the one before; it is followed (clean) when it      *)
(* began more than the settle delay after the previous relevant event of  *)
(* its session, no event has raced with its expiring timer, and ctx has   *)
(* not been cancelled.                                                    *)
(***************************************************************************)
\* the paths the call watches
Watched == Range(cfg.TargetFiles)

\* what the specification calls a relevant event for target
RelevantFor(ev, target) ==
    /\ ev.Name = target
    /\ \E o \in {"Write", "Create", "Rename", "Remove"} : o \in ev.Op

\* a followed burst of path t: no OnChange before one settle delay has passed
\* since its last event, exactly one once more than that has passed
BurstSettlesOnce(t) ==
    clean[t] =>
        /\ fires[t] <= 1
        /\ since[t] < D => fires[t] = 0
        /\ since[t] > D => fires[t] = 1

C3_TwoBurstsTwoChanges ==
    \A t \in Targets :
        ~dirty[t] /\ nBursts[t] = 2 =>
            /\ nChange[t] \in {1, 2}
            /\ since[t] < D => nChange[t] = 1
            /\ since[t] > D => nChange[t] = 2

\* the second of two bursts has been delivered
C3_Witness ==
    \E t \in Targets :
        /\ pc = "select" /\ ~dirty[t] /\ nBursts[t] = 2
        /\ since[t] > D /\ nChange[t] = 2

\* the timers of path b, with their place in the map
TimersOf(b) == {t \in timers : t.path = b}

\* C4: WatchMultiple: processing a relevant event for a target leaves the
\* timer and the map entry of every other target as they are.
C4_EventFrame ==
    [][\A ev \in RawEvents :
          WatchMultiple_Event(ev) =>
              \A b \in Targets : ~RelevantFor(ev, b) => TimersOf(b)' = TimersOf(b)]_vars

\* a's timer was rescheduled while b's was pending, and b's runs on
C4_Witness ==
    /\ mode = "WatchMultiple" /\ pc = "select"
    /\ \E ta \in TimersOf(FileA), tb \in TimersOf(FileB) :
          /\ ta.st = "armed" /\ tb.st = "armed" /\ ta.inMap /\ tb.inMap
          /\ tb.left < ta.left
    /\ nEvents[FileA] = 2

\* the timers and queues of both functions
allTimers == <<debounce, orphans, timers, queues>>

\* C6: a raw event arms or resets a timer only if its path is exactly a
\* configured target and its operations include write, create, rename or
\* remove; any other event (a sibling file, a permission change) changes no
\* timer, and a path gets no notification without such an event.
C6_TargetFilter ==
    /\ [][\A ev \in RawEvents :
            (Watch_Event(ev) \/ WatchMultiple_Event(ev))
            /\ (\A t \in Watched : ~RelevantFor(ev, t))
            => UNCHANGED <<allTimers, changeVars>>]_vars
    /\ [](\A t \in Targets : nEvents[t] = 0 /\ ~cancelled => nChange[t] = 0)

\* an event for a sibling file or a permission change was processed in a
\* session that has no timer
C6_Witness ==
    /\ pc = "select" /\ evBudget < MaxEvents
    /\ \A t \in Targets : nEvents[t] = 0
    /\ nWatchers = 1
    /\ ~debounce.armed /\ timers = {}

\* C5: WatchMultiple: when relevant events for two distinct targets a and b
\* have been processed in one session, whether they share a directory or not,
\* and neither cancellation nor a source error follows, OnChange is eventually
\* invoked with a and eventually with b.  (The target lists have two entries;
\* a is the i-th.)
C5_BothNotified ==
    \A i \in 1..2 :
        (/\ mode = "WatchMultiple" /\ pc = "select"
         /\ i \in DOMAIN cfg.TargetFiles
         /\ owed[cfg.TargetFiles[i]]
         /\ \E b \in Watched \ {cfg.TargetFiles[i]} : nEvents[b] > 0)
            ~> (\/ cancelled
                \/ pc # "select"
                \/ i \in DOMAIN cfg.TargetFiles /\ ~owed[cfg.TargetFiles[i]])

\* two targets of one directory were both changed and both notified
C5_Witness ==
    /\ mode = "WatchMultiple" /\ pc = "select" /\ ~cancelled
    /\ nEvents[FileA] > 0 /\ nEvents[FileC] > 0
    /\ nChange[FileA] > 0 /\ nChange[FileC] > 0
    /\ ~owed[FileA] /\ ~owed[FileC]

\* a step in which watcher creation, directory registration or the running
\* session fails
ErrorStep ==
    \/ Watch_NewWatcher(FALSE)
    \/ Watch_Add(FALSE)
    \/ Watch_Error
    \/ WatchMultiple_NewWatcher(FALSE)
    \/ \E dir \in {Dir(f) : f \in AllPaths} : WatchMultiple_Add(dir, FALSE)
    \/ WatchMultiple_Error(FALSE)

\* C7: Watch and WatchMultiple return only with a configuration error before
\* any session is opened, or with the context's error after cancellation was
\* signalled.  A creation, registration or mid-session error never makes the
\* function return; it is reported to OnError, when set.
C7_ReturnsOnlyTwoWays ==
    /\ [](pc = "returned" =>
            \/ result \in {"errOnChange", "errNoTargets"} /\ nWatchers = 0 /\ nOnError = 0
            \/ result = "ctxErr" /\ cancelled)
    /\ [][ErrorStep =>
            /\ pc' # "returned" /\ result' = "none"
            /\ nOnError' = IF cfg.OnError THEN nOnError + 1 ELSE nOnError]_vars

\* a call that reported a registration failure and an adapter error has
\* returned on cancellation
C7_Witness ==
    /\ pc = "returned" /\ result = "ctxErr"
    /\ nOnError >= 2 /\ nWatchers >= 2

\* the positions of the retry loop
LoopStates == {"open", "add", "retry", "retryAdd", "select"}

\* the steps that take a ctx.Done() case
ObserveCancel ==
    \/ Watch_RetryCancelled
    \/ Watch_Cancelled
    \/ WatchMultiple_RetryCancelled
    \/ WatchMultiple_Cancelled

\* C8: once cancellation is signalled, the call eventually returns ctx.Err()
\* from every state of the retry loop (opening, registering, waiting out the
\* retry delay, watching with or without pending timers); once the loop has
\* observed the cancellation it has returned and opens no further session.
C8_CancelReturns ==
    /\ (cancelled /\ pc \in LoopStates) ~> (pc = "returned" /\ result = "ctxErr")
    /\ [][ObserveCancel => pc' = "returned" /\ result' = "ctxErr"]_vars
    /\ [][pc = "returned" => UNCHANGED <<pc, result, handleVars>>]_vars

\* the call returned on a cancellation signalled during a retry wait
C8_Witness ==
    /\ pc = "returned" /\ result = "ctxErr"
    /\ retryLeft > 0

\* C9 as stated: no OnChange is delivered at any point after the cancellation
\* was issued, even if a timer has already expired or a settlement is queued.
C9_NoChangeAfterCancel == ~changeAfterCancel

\* C9, amended: a call cancelled while a session is open returns ctx.Err(),
\* and no OnChange is delivered after the call has returned; between the
\* cancellation and the return an expired timer or a queued settlement may
\* still be delivered.
C9_NoChangeAfterReturn ==
    /\ ~changeAfterReturn
    /\ pc = "returned" /\ nWatchers > 0 => result = "ctxErr" /\ cancelled

\* a settlement was delivered between the cancellation and the return; another
\* one, posted by its timer function, stays in the queue of the returned call
C9_Witness ==
    /\ mode = "WatchMultiple" /\ pc = "returned" /\ result = "ctxErr"
    /\ changeAfterCancel
    /\ Len(queues) > 0 /\ queues[Len(queues)] # << >>
    /\ \A t \in timers : t.st # "fired"

\* C10 as stated: when the call returns on cancellation no timer is left
\* scheduled, those of earlier sessions included.
C10_TimersCancelledOnReturn ==
    pc = "returned" /\ result = "ctxErr" =>
        /\ ~debounce.armed
        /\ orphans = {}
        /\ \A t \in timers : t.st # "armed"

\* C11: on every return path (cancellation while watching, cancellation in the
\* retry wait after a failed creation, cancellation in the retry wait after a
\* failed registration, a rejected configuration) no watcher created by the
\* call is left open.
C11_NoHandleLeftOpen ==
    pc = "returned" => openHandles = 0 /\ handle # "open"

\* the call returned from the retry wait after a failed registration, having
\* created a watcher
C11_Witness ==
    /\ pc = "returned" /\ result = "ctxErr"
    /\ nWatchers > 0 /\ retryLeft > 0 /\ handle = "closed"

\* nothing of the call has happened but its return: no watcher was created,
\* no directory registered, no callback invoked
NothingStarted ==
    /\ pc = "returned"
    /\ nWatchers = 0 /\ handle = "none" /\ toAdd = {}
    /\ ~onEventCalled /\ nOnError = 0
    /\ \A t \in Targets : nChange[t] = 0

\* C12: a missing change callback is rejected by Watch and by WatchMultiple
\* with the error "OnChange callback must be set" before any session is
\* opened, and neither OnEvent nor OnError is invoked during the call.
C12_MissingOnChangeRejected ==
    ~cfg.OnChange /\ pc # "start" => result = "errOnChange" /\ NothingStarted

\* WatchMultiple with two targets and no OnChange has returned
C12_Witness ==
    /\ mode = "WatchMultiple" /\ cfg.TargetFiles = <<FileA, FileB>> /\ ~cfg.OnChange
    /\ pc = "returned" /\ result = "errOnChange"

\* C13: WatchMultiple with an empty target list returns the error "at least
\* one target file must be specified" at once: before any watcher is created,
\* any directory registered and any OnEvent / OnError notification.
C13_EmptyListRejected ==
    mode = "WatchMultiple" /\ cfg.OnChange /\ cfg.TargetFiles = << >> /\ pc # "start"
        => result = "errNoTargets" /\ NothingStarted

\* WatchMultiple with OnChange set and no target has returned
C13_Witness ==
    /\ mode = "WatchMultiple" /\ cfg.OnChange /\ cfg.TargetFiles = << >>
    /\ pc = "returned" /\ result = "errNoTargets"

\* C14 as stated: Watch called with OnChange but with an empty TargetFile
\* fails at once with a configuration error, before any session is opened and
\* any directory registered.
C14_WatchRejectsEmptyTarget ==
    mode = "Watch" /\ cfg.OnChange /\ TargetFile = NoPath /\ pc # "start"
        => /\ pc = "returned"
           /\ result \in {"errOnChange", "errNoTargets"}
           /\ nWatchers = 0


\* a step of Watch in which creating the watcher or registering the directory
\* fails
WatchAttemptFails ==
    /\ mode = "Watch" /\ pc \in {"open", "add"}
    /\ failBudget' = failBudget - 1

RetryWaits == {"retry", "retryAdd"}

\* C15: in Watch every failed attempt to establish a session (creating the
\* watcher or registering the directory) is reported once through OnError
\* when OnError is set, leaves no handle open and starts a wait of RetryDelay;
\* the wait ends only with a fresh attempt once the delay has elapsed or with
\* the return of ctx.Err() once cancellation is signalled; while cancellation
\* is not signalled the wait always ends and another attempt is made, however
\* many attempts have failed before.
C15_FailedAttemptRetried ==
    /\ [][WatchAttemptFails =>
            /\ nOnError' = nOnError + (IF cfg.OnError THEN 1 ELSE 0)
            /\ openHandles' = 0 /\ handle' # "open"
            /\ pc' \in RetryWaits
            /\ retryLeft' = cfg.RetryDelay
            /\ result' = "none"]_vars
    /\ [][mode = "Watch" /\ pc \in RetryWaits =>
            \/ pc' = pc /\ retryLeft' \in {retryLeft, retryLeft - 1}
                        /\ nOnError' = nOnError /\ openHandles' = 0
            \/ pc' = "open" /\ retryLeft = 0 /\ nOnError' = nOnError
            \/ pc' = "returned" /\ cancelled /\ result' = "ctxErr"]_vars
    /\ (mode = "Watch" /\ pc \in RetryWaits /\ ~cancelled)
           ~> (pc = "open" \/ cancelled)
    /\ (mode = "Watch" /\ pc = "open") ~> (pc \in {"add", "retry"})

\* a fresh attempt succeeded after every failure the environment allows
C15_Witness ==
    /\ mode = "Watch" /\ cfg.OnError /\ ~cancelled
    /\ failBudget = 0 /\ nOnError = MaxRetryFails
    /\ pc = "add" /\ handle = "open" /\ openHandles = 1


C17_ErrorWaitsRetryDelay ==
    [][pc = "select" /\ pc' \notin {"select", "returned"} =>
          pc' \in RetryWaits /\ retryLeft' = cfg.RetryDelay]_vars


\* the directories of the targets
TargetDirs == {Dir(f) : f \in Watched}

\* C18: an adapter error received in the select loop tears the session down
\* and a new one is set up: OnError is called once when it is set, the
\* watcher is closed and keeps no registration, no event is processed while
\* the current watcher is closed, a watcher that becomes current is newly
\* created and starts without registrations, and unless cancellation is
\* signalled the loop is eventually back in the select loop with an open
\* watcher on which the directory of every target is registered.
C18_ErrorRestartsSession ==
    /\ [][pc = "select" /\ pc' # "returned" /\ errBudget' = errBudget - 1 =>
            /\ nOnError' = nOnError + (IF cfg.OnError THEN 1 ELSE 0)
            /\ handle = "open" /\ handle' = "closed"
            /\ openHandles' = 0 /\ registered' = {}
            /\ pc' # "select"]_vars
    /\ [][handle # "open" /\ pc' # "returned" => evBudget' = evBudget]_vars
    /\ [][handle # "open" /\ handle' = "open" =>
            nWatchers' = nWatchers + 1 /\ registered' = {}]_vars
    /\ (pc = "open" /\ nWatchers > 0 /\ ~cancelled)
           ~> (cancelled \/ (pc = "select" /\ handle = "open" /\ registered = TargetDirs))

\* the session after an adapter error watches both directories again
C18_Witness ==
    /\ mode = "WatchMultiple" /\ cfg.TargetFiles = <<FileA, FileB>> /\ cfg.OnError
    /\ ~cancelled /\ errBudget = MaxErrors - 1 /\ failBudget = MaxFails
    /\ nOnError = 1 /\ nWatchers = 2
    /\ pc = "select" /\ handle = "open" /\ openHandles = 1
    /\ registered = {Dir(FileA), Dir(FileB)}


\* C19: in every reachable state of a call at most one watcher created by it
\* is open, and it is the current one; a watcher is created only when the
\* one before it has been closed.
C19_OneHandleOpen ==
    /\ [](openHandles = IF handle = "open" THEN 1 ELSE 0)
    /\ [][nWatchers' # nWatchers =>
            /\ nWatchers' = nWatchers + 1
            /\ openHandles = 0 /\ handle # "open"
            /\ openHandles' = 1 /\ handle' = "open"]_vars

\* the third watcher of a call is open, the two before it are closed
C19_Witness ==
    /\ nWatchers = 3 /\ openHandles = 1 /\ handle = "open"
    /\ errBudget = 0 /\ failBudget = 0


\* C20 as stated: in WatchMultiple a failed registration of a directory is
\* reported once, closes the watcher and starts a wait of RetryDelay that ends
\* with a whole new session (or with ctx.Err() on cancellation); no directory
\* is registered on a watcher that is not open, and the select loop is entered
\* only with an open watcher on which the directory of every target is
\* registered.
C20_FailedRegistrationRestarts ==
    /\ [][mode = "WatchMultiple" /\ pc = "add" /\ failBudget' = failBudget - 1 =>
            /\ nOnError' = nOnError + (IF cfg.OnError THEN 1 ELSE 0)
            /\ handle' = "closed" /\ openHandles' = 0
            /\ pc' = "retryAdd" /\ retryLeft' = cfg.RetryDelay]_vars
    /\ [][mode = "WatchMultiple" /\ pc = "retryAdd" /\ pc' # pc =>
            \/ pc' = "open" /\ retryLeft = 0
            \/ pc' = "returned" /\ cancelled /\ result' = "ctxErr"]_vars
    /\ [][mode = "WatchMultiple" /\ handle # "open" /\ pc' # "returned" =>
            toAdd' = toAdd \/ handle' = "open"]_vars
    /\ [][mode = "WatchMultiple" /\ pc # "select" /\ pc' = "select" =>
            handle' = "open" /\ registered' = TargetDirs]_vars


\* the function of timer t posts its path in this step
Posts(t) ==
    /\ t \in timers /\ t.st = "fired"
    /\ t \notin timers'
    /\ [t EXCEPT !.st = "sent"] \in timers'
    /\ Len(queues'[t.q]) = Len(queues[t.q]) + 1

\* a later event of the same session has replaced timer t by another timer
Superseded(t) ==
    \E u \in timers : u.path = t.path /\ u.q = t.q /\ u.st = "armed"

\* C21 as stated: in WatchMultiple, once a relevant event for a target has
\* been processed, no timer created for that target before the event posts a
\* settlement, and OnChange is not called for the target before the settle
\* delay has passed since the event.
C21_NoStaleFire ==
    /\ [][\A t \in timers : Posts(t) => ~Superseded(t)]_vars
    /\ [][\A p \in Targets :
            mode = "WatchMultiple" /\ nChange'[p] = nChange[p] + 1 => since[p] >= D]_vars


\* the timers of path p that are scheduled: not fired, not stopped
Pending(p) == {t \in timers : t.path = p /\ t.st = "armed"}

\* C22 as stated: in every reachable state at most one timer is pending per
\* target path, and in Watch at most one in all.
C22_OnePendingTimer ==
    /\ \A p \in Targets : Cardinality(Pending(p)) <= 1
    /\ mode = "Watch" =>
          Cardinality(orphans) + (IF debounce.armed THEN 1 ELSE 0) <= 1


\* C23: in WatchMultiple every new watcher is given the directories of the
\* targets to register, each distinct directory once however many targets
\* (or repeated entries) share it: the directories still to be passed to
\* w.Add start as the set of the targets' directories, each call of w.Add
\* takes one of them off, the select loop is entered only when none is left,
\* and a directory is registered on a watcher at most once.
C23_EachDirectoryOnce ==
    /\ [](mode = "WatchMultiple" => registered \subseteq TargetDirs /\ toAdd \subseteq TargetDirs)
    /\ [][mode = "WatchMultiple" /\ nWatchers' = nWatchers + 1 =>
            toAdd' = TargetDirs /\ registered' = {}]_vars
    /\ [][mode = "WatchMultiple" /\ nWatchers' = nWatchers /\ toAdd' # toAdd =>
            \E d \in toAdd : /\ toAdd' = toAdd \ {d}
                             /\ registered' \in {registered \cup {d}, {}}]_vars
    /\ [][mode = "WatchMultiple" /\ registered' # registered /\ registered' # {} =>
            \E d \in toAdd \ registered : registered' = registered \cup {d}]_vars
    /\ [][mode = "WatchMultiple" /\ pc = "add" /\ pc' = "select" => toAdd = {}]_vars

\* two targets of one directory: the session watches that directory, and
\* both targets have been notified
C23_Witness ==
    /\ mode = "WatchMultiple" /\ cfg.TargetFiles = <<FileA, FileC>>
    /\ pc = "select" /\ handle = "open" /\ registered = {Dir(FileA)}
    /\ nChange[FileA] = 1 /\ nChange[FileC] = 1


\* C24: a settle delay of zero becomes 3 seconds and a retry delay of zero
\* 2 seconds when Watch / WatchMultiple is entered, other values are kept
\* and nothing else of the configuration changes; afterwards the
\* configuration never changes, every retry wait starts with the effective
\* retry delay and every timer armed by a relevant event runs for the
\* effective settle delay, in every session of the call.
C24_DefaultDelays ==
    /\ [][pc = "start" /\ pc' # "start" =>
            /\ cfg'.Debounce = (IF cfg.Debounce = 0 THEN 3 ELSE cfg.Debounce)
            /\ cfg'.RetryDelay = (IF cfg.RetryDelay = 0 THEN 2 ELSE cfg.RetryDelay)
            /\ cfg'.TargetFiles = cfg.TargetFiles
            /\ cfg'.OnChange = cfg.OnChange /\ cfg'.OnEvent = cfg.OnEvent
            /\ cfg'.OnError = cfg.OnError]_vars
    /\ [][pc # "start" => cfg' = cfg]_vars
    /\ [](pc # "start" => cfg.Debounce > 0 /\ cfg.RetryDelay > 0)
    /\ [][pc \notin RetryWaits /\ pc' \in RetryWaits => retryLeft' = cfg.RetryDelay]_vars
    /\ [][\A p \in Targets : nEvents'[p] = nEvents[p] + 1 =>
            IF mode = "Watch"
               THEN debounce'.armed /\ debounce'.left = cfg.Debounce
               ELSE \E t \in timers' : /\ t.path = p /\ t.st = "armed" /\ t.inMap
                                       /\ t.q = Len(queues) /\ t.left = cfg.Debounce]_vars
    /\ [](/\ debounce.left <= cfg.Debounce
          /\ \A l \in orphans : l <= cfg.Debounce
          /\ \A t \in timers : t.left <= cfg.Debounce
          /\ retryLeft <= cfg.RetryDelay)

\* both delays were left unset: the second session of the call has armed a
\* timer for 3 seconds, after a retry wait of 2 seconds
C24_Witness ==
    /\ mode = "WatchMultiple" /\ cfg.Debounce = 3 /\ cfg.RetryDelay = 2
    /\ pc = "select" /\ nWatchers = 2 /\ failBudget = 0
    /\ \E t \in timers : t.st = "armed" /\ t.left = 3 /\ t.q = Len(queues)


\* the Config value SelfMonitor builds from its own configuration
SameAsWatchConfig(self, config) ==
    /\ config.TargetFiles = <<Executable>>
    /\ config.OnChange = self.OnReload
    /\ config.OnEvent = self.OnEvent
    /\ config.OnError = self.OnError
    /\ config.Debounce = self.Debounce
    /\ config.RetryDelay = self.RetryDelay
    /\ DOMAIN config = {"TargetFiles", "OnChange", "OnEvent", "OnError", "Debounce",
                        "RetryDelay"}

\* C25: SelfMonitor either returns the error of resolving the executable's
\* path at once, with no retry, no watcher created and no callback invoked,
\* or enters Watch with the executable as the only target, OnReload as
\* OnChange and the delays and the error callback it was given; until then
\* nothing has happened, and every later step is a step of Watch, whose
\* result is the result of the call.
C25_SelfMonitorIsWatch ==
    /\ [](mode = "SelfMonitor" =>
            /\ pc \in {"start", "returned"}
            /\ pc = "returned" <=> result = "exeErr"
            /\ NothingStarted \/ (pc = "start" /\ nWatchers = 0 /\ nOnError = 0 /\ ~onEventCalled)
            /\ retryLeft = 0 /\ failBudget = MaxFails)
    /\ [][mode = "SelfMonitor" /\ pc = "start" /\ (pc' # pc \/ mode' # mode) =>
            \/ pc' = "returned" /\ mode' = mode /\ result' = "exeErr"
            \/ /\ mode' = "Watch" /\ pc' = "start" /\ result' = "none"
               /\ SameAsWatchConfig(cfg, cfg')]_vars
    /\ [][mode = "SelfMonitor" /\ pc = "returned" => UNCHANGED vars]_vars
    /\ [][mode = "Watch" => WatchNext /\ mode' = "Watch"]_vars
    /\ [](result = "exeErr" => mode = "SelfMonitor")

\* SelfMonitor called with both delays unset: OnReload has been called for
\* the executable 3 seconds after its event
C25_Witness ==
    /\ mode = "Watch" /\ cfg.TargetFiles = <<Executable>>
    /\ cfg.Debounce = 3 /\ cfg.RetryDelay = 2
    /\ pc = "select" /\ nChange[Executable] = 1 /\ ~owed[Executable]


\* the state of a call apart from which of OnEvent and OnError the caller
\* supplied and how often they have been called: the position of the loop,
\* the result, the watcher and its registrations, the retry wait, the timers
\* and queues, the change notifications, the inputs still to come
Control ==
    <<mode, asyncTimerChan, [cfg EXCEPT !.OnEvent = TRUE, !.OnError = TRUE], pc,
      result, cancelled, handle, openHandles, registered, nWatchers, toAdd,
      evBudget, errBudget, failBudget, retryLeft, debounce, orphans, timers,
      queues, since, clean, dirty, fires, nBursts, nEvents, nChange, owed,
      changeAfterCancel, changeAfterReturn, evTarget>>

\* the most OnError calls of a call
MaxOnError == MaxErrors + MaxFails + 2

\* the same state of a caller that supplied other callbacks
OtherCallbacks ==
    /\ \E e \in BOOLEAN, r \in BOOLEAN : cfg' = [cfg EXCEPT !.OnEvent = e, !.OnError = r]
    /\ nOnError' \in 0..MaxOnError
    /\ onEventCalled' \in BOOLEAN
    /\ UNCHANGED <<mode, asyncTimerChan, pc, result, cancelled, handleVars, toAdd,
                   envVars, failBudget, retryLeft, watchTimerVars, multiTimerVars,
                   obsVars, evTarget>>

\* C26: OnEvent and OnError are advisory: whatever step a call takes, a call
\* in the same state whose caller supplied other callbacks (both, one or
\* none, called any number of times so far) can take a step on the same
\* input to the same next state of sessions, retry waits, timers, change
\* notifications and result.
C26_CallbacksAdvisory ==
    [][\A next \in {Control'} :
          \A e \in BOOLEAN, r \in BOOLEAN, n \in 0..MaxOnError :
             ENABLED (/\ OtherCallbacks
                      /\ cfg'.OnEvent = e /\ cfg'.OnError = r /\ nOnError' = n
                      /\ (ENABLED (Next /\ Control' = next))')]_vars


\* a caller without OnEvent and OnError: two sessions have ended, by a failed
\* registration and by an adapter error, and the third one is watching
C26_Witness ==
    /\ ~cfg.OnEvent /\ ~cfg.OnError /\ nOnError = 0 /\ ~onEventCalled
    /\ errBudget = 0 /\ failBudget = 0 /\ nWatchers = 3
    /\ pc = "select" /\ handle = "open" /\ ~cancelled



\* the goroutines that hold the timerMutex of session q
Holders(q) ==
    FuncsHoldingMutex(q) \cup (IF LoopHoldsMutex /\ q = Len(queues) THEN {"loop"} ELSE {})

\* the paths that have an entry in the activeTimers map of session q
Keys(ts, q) == {t.path : t \in {u \in ts : u.q = q /\ u.inMap}}

\* this step works on the activeTimers map of session q: an entry is added
\* or removed, or a scheduled timer of the map is stopped or replaced
MapTouched(q) ==
    \/ Keys(timers', q) # Keys(timers, q)
    \/ \E t \in timers :
          /\ t.q = q /\ t.st = "armed"
          /\ \A u \in timers' :
                ~(/\ u.path = t.path /\ u.q = q
                  /\ \/ u.st = "fired"
                     \/ u.st = "armed" /\ u.left \in {t.left, t.left - 1})

\* C27: in WatchMultiple the activeTimers map of a session is worked on (an
\* entry replaced on a new event, removed by a timer function, the timers
\* stopped on cancellation) only in steps of a goroutine that holds the
\* session's timerMutex, and the mutex never has two holders: the loop and a
\* timer function, or two timer functions, are never between Lock() and
\* Unlock() at the same time.
C27_MapUnderMutex ==
    /\ [](\A q \in 1..Len(queues) : Cardinality(Holders(q)) <= 1)
    /\ [][\A q \in 1..Len(queues) : MapTouched(q) => Holders(q) # {}]_vars

\* the loop waits in timerMutex.Lock() for a new event while a timer function
\* of the same session holds the mutex
C27_Witness ==
    /\ pc = "evLock"
    /\ \E t \in timers : t.st = "locked" /\ t.q = Len(queues) /\ t.path = evTarget



\* a session of WatchMultiple is being opened: no watcher yet, or its
\* directories are still being registered
Opening == pc \in {"open", "retry", "add", "retryAdd"}

\* the timers created by sessions before the one that is opening or watching
EarlierTimers ==
    IF Opening THEN timers ELSE {t \in timers : t.q < Len(queues)}

\* C28 as stated: in WatchMultiple, after a session was torn down by an
\* error of the watcher, no timer created by an earlier session is scheduled
\* while a later session is opening or watching, and none expires or posts
\* its path then.
C28_TeardownCancelsTimers ==
    /\ [](mode = "WatchMultiple" /\ (Opening \/ pc = "select") =>
             \A t \in EarlierTimers : t.st # "armed")
    /\ [][mode = "WatchMultiple" /\ (Opening \/ pc = "select") =>
             \A t \in EarlierTimers :
                /\ ~Posts(t)
                /\ ~(t.st = "armed" /\ [t EXCEPT !.st = "fired"] \in timers')]_vars



\* the loop of Watch receives from debounce.C in this step
ReceivesExpiration ==
    mode = "Watch" /\ pc = "select" /\ debounce.C /\ ~debounce'.C

\* C29 as stated: in Watch, OnChange is not called before a full settle
\* delay has passed since the last relevant event the loop processed (so an
\* expiration delivered before that event gives no notification ahead of the
\* rescheduled timer), and receiving an expiration never disarms a timer
\* that a later event has re-armed.
C29_WatchNoEarlyChange ==
    /\ [][mode = "Watch" /\ nChange'[TargetFile] = nChange[TargetFile] + 1 =>
             since[TargetFile] >= D]_vars
    /\ [][ReceivesExpiration => ~(debounce.armed /\ ~debounce'.armed)]_vars



\* C30 as stated: OnChange is called for a target only if a relevant event
\* of the target has been processed in the current session since the last
\* OnChange for it (or since the session began); a session in which no
\* relevant event was processed calls OnChange for no target.
C30_NoSpuriousChange ==
    /\ [][\A p \in Targets : nChange'[p] = nChange[p] + 1 => owed[p]]_vars
    /\ [](\A p \in Targets : nEvents[p] = 0 => nChange[p] = 0)



(***************************************************************************)
(* The Watch that sends a signal (Config with a Signal field).  Its loop  *)
(* is that of Watch, with syscall.Kill in the place of OnChange, no       *)
(* OnChange check, and time.Sleep after a failed w.Add.                   *)
(***************************************************************************)
\* raw events in one call, in the runs of the signal-sending Watch
MaxSignalEvents == 2
\* watchers the observer counts in one call of the signal-sending Watch
MaxSignalWatchers == 3

\* the Config values a caller passes: a target, a signal, the delays
SignalConfigs ==
    [TargetFiles : {<<FileA>>}, Signal : {"SIGHUP"}, OnEvent : {TRUE}, OnError : BOOLEAN,
     Debounce : DebounceOrUnset, RetryDelay : RetryDelayOrUnset]

\* cfg.OnError(err), when set; the observer stops counting at MaxOnError
SignalCallOnError ==
    nOnError' = IF cfg.OnError /\ nOnError < MaxOnError THEN nOnError + 1 ELSE nOnError

\* the two zero checks
SignalWatch_Defaults ==
    /\ mode = "SignalWatch" /\ pc = "start"
    /\ cfg' = WithDefaults(cfg)
    /\ pc' = "open"
    /\ ObserveSession(cfg'.Debounce)
    /\ UNCHANGED <<mode, asyncTimerChan, result, cancelled, handleVars, toAdd, envVars,
                   failBudget, retryLeft, watchTimerVars, multiTimerVars,
                   changeAfterCancel, changeAfterReturn, nOnError, onEventCalled, evTarget>>

\* fsnotify.NewWatcher() and its failure branch
SignalWatch_NewWatcher(ok) ==
    /\ mode = "SignalWatch" /\ pc = "open"
    /\ IF ok
          THEN /\ handle' = "open"
               /\ registered' = {}
               /\ openHandles' = openHandles + 1
               /\ nWatchers' = IF nWatchers < MaxSignalWatchers THEN nWatchers + 1
                                                                ELSE nWatchers
               /\ pc' = "add"
               /\ UNCHANGED <<failBudget, retryLeft, nOnError>>
          ELSE /\ failBudget > 0
               /\ failBudget' = failBudget - 1
               /\ SignalCallOnError
               /\ retryLeft' = cfg.RetryDelay
               /\ pc' = "retry"
               /\ UNCHANGED handleVars
    /\ UNCHANGED <<cfgVars, result, cancelled, toAdd, envVars, watchTimerVars,
                   multiTimerVars, obsVars, onEventCalled, evTarget>>

\* select { case <-time.After(cfg.RetryDelay): continue }
SignalWatch_RetryElapsed ==
    /\ mode = "SignalWatch" /\ pc = "retry"
    /\ retryLeft = 0
    /\ pc' = "open"
    /\ UNCHANGED <<cfgVars, result, cancelled, handleVars, toAdd, envVars,
                   failBudget, retryLeft, watchTimerVars, multiTimerVars, obsVars,
                   nOnError, onEventCalled, evTarget>>

\* select { case <-ctx.Done(): return ctx.Err() }
SignalWatch_RetryCancelled ==
    /\ mode = "SignalWatch" /\ pc = "retry"
    /\ cancelled
    /\ ReturnCtxErr
    /\ UNCHANGED <<cfgVars, cancelled, handleVars, toAdd, retryLeft, watchTimerVars,
                   multiTimerVars, obsVars, nOnError, onEventCalled, evTarget>>

\* w.Add(dir), its failure branch up to time.Sleep, and the idle timer.  The
\* directory may be missing for as long as the environment likes: a failed
\* registration does not use up failBudget.
SignalWatch_Add(ok) ==
    /\ mode = "SignalWatch" /\ pc = "add"
    /\ IF ok
          THEN /\ debounce' = StoppedTimer
               /\ pc' = "select"
               /\ registered' = {Dir(TargetFile)}
               /\ UNCHANGED <<handle, openHandles, retryLeft, nOnError>>
          ELSE /\ failBudget > 0
               /\ SignalCallOnError
               /\ handle' = "closed"
               /\ registered' = {}
               /\ openHandles' = openHandles - 1
               /\ retryLeft' = cfg.RetryDelay
               /\ pc' = "sleep"
               /\ UNCHANGED debounce
    /\ CallOnEvent(ok)
    /\ UNCHANGED <<cfgVars, result, cancelled, nWatchers, toAdd, envVars, failBudget,
                   orphans, multiTimerVars, obsVars, evTarget>>

\* time.Sleep(cfg.RetryDelay) returns; continue
SignalWatch_SleepElapsed ==
    /\ mode = "SignalWatch" /\ pc = "sleep"
    /\ retryLeft = 0
    /\ pc' = "open"
    /\ UNCHANGED <<cfgVars, result, cancelled, handleVars, toAdd, envVars,
                   failBudget, retryLeft, watchTimerVars, multiTimerVars, obsVars,
                   nOnError, onEventCalled, evTarget>>

\* case <-ctx.Done(): w.Close(); return ctx.Err()
SignalWatch_Cancelled ==
    /\ mode = "SignalWatch" /\ pc = "select"
    /\ cancelled
    /\ handle' = "closed"
    /\ registered' = {}
    /\ openHandles' = openHandles - 1
    /\ ReturnCtxErr
    /\ UNCHANGED <<cfgVars, cancelled, nWatchers, toAdd, retryLeft, watchTimerVars,
                   multiTimerVars, obsVars, nOnError, onEventCalled, evTarget>>

\* case ev := <-w.Events
SignalWatch_Event(ev) ==
    /\ mode = "SignalWatch" /\ pc = "select"
    /\ handle = "open"
    /\ evBudget > 0
    /\ Dir(ev.Name) \in registered
    /\ evBudget' = evBudget - 1
    /\ IF IsRelevant(ev, TargetFile)
          THEN /\ debounce' = TimerReset(debounce, cfg.Debounce)
               /\ ObserveEvent(TargetFile)
          ELSE UNCHANGED <<debounce, burstVars, owed>>
    /\ CallOnEvent(IsRelevant(ev, TargetFile))
    /\ UNCHANGED <<cfgVars, pc, result, cancelled, handleVars, toAdd, errBudget,
                   failBudget, retryLeft, orphans, multiTimerVars, changeVars,
                   nOnError, evTarget>>

\* case <-debounce.C: syscall.Kill(syscall.Getpid(), cfg.Signal), observed as
\* the change notification of the target; debounce.Stop()
SignalWatch_Debounce ==
    /\ mode = "SignalWatch" /\ pc = "select"
    /\ debounce.C
    /\ ObserveChange(TargetFile)
    /\ debounce' = TimerStop([debounce EXCEPT !.C = FALSE])
    /\ CallOnEvent(TRUE)
    /\ UNCHANGED <<cfgVars, pc, result, cancelled, handleVars, toAdd, envVars,
                   failBudget, retryLeft, orphans, multiTimerVars, since, clean,
                   dirty, nBursts, nEvents, nOnError, evTarget>>

\* case err := <-w.Errors; break loop; w.Close()
SignalWatch_Error ==
    /\ mode = "SignalWatch" /\ pc = "select"
    /\ handle = "open"
    /\ errBudget > 0
    /\ errBudget' = errBudget - 1
    /\ SignalCallOnError
    /\ handle' = "closed"
    /\ registered' = {}
    /\ openHandles' = openHandles - 1
    /\ orphans' = IF debounce.armed THEN orphans \cup {debounce.left} ELSE orphans
    /\ debounce' = StoppedTimer
    /\ ObserveSession(cfg.Debounce)
    /\ pc' = "open"
    /\ UNCHANGED <<cfgVars, result, cancelled, nWatchers, toAdd, evBudget,
                   failBudget, retryLeft, multiTimerVars, changeAfterCancel,
                   changeAfterReturn, onEventCalled, evTarget>>

\* the steps of the loop that need nothing from the environment
SignalLoopProgress ==
    \/ SignalWatch_Defaults
    \/ \E ok \in BOOLEAN : SignalWatch_NewWatcher(ok)
    \/ SignalWatch_RetryElapsed
    \/ SignalWatch_RetryCancelled
    \/ \E ok \in BOOLEAN : SignalWatch_Add(ok)
    \/ SignalWatch_SleepElapsed
    \/ SignalWatch_Cancelled
    \/ SignalWatch_Debounce

SignalInit ==
    /\ mode = "SignalWatch"
    /\ asyncTimerChan \in BOOLEAN
    /\ cfg \in SignalConfigs
    /\ InitRest(MaxSignalEvents, MaxErrors, MaxFails)

SignalNext ==
    \/ SignalWatch_Defaults
    \/ \E ok \in BOOLEAN : SignalWatch_NewWatcher(ok)
    \/ SignalWatch_RetryElapsed
    \/ SignalWatch_RetryCancelled
    \/ \E ok \in BOOLEAN : SignalWatch_Add(ok)
    \/ SignalWatch_SleepElapsed
    \/ SignalWatch_Cancelled
    \/ \E ev \in RawEvents : SignalWatch_Event(ev)
    \/ SignalWatch_Debounce
    \/ SignalWatch_Error
    \/ WatchTimerStep
    \/ Cancel
    \/ Tick

\* the loop, the timers and the clock are scheduled fairly; whether the
\* directory can be registered is up to the environment
SignalSpec ==
    /\ SignalInit /\ [][SignalNext]_vars
    /\ WF_vars(SignalLoopProgress)
    /\ WF_vars(WatchTimerStep)
    /\ WF_vars(Tick)

\* C31 as stated: the signal-sending Watch observes cancellation at every
\* wait: once ctx is cancelled the call eventually returns ctx.Err(), also
\* when the registration of the directory keeps failing.
C31_SignalWatchObservesCancel ==
    (mode = "SignalWatch" /\ cancelled) ~> (pc = "returned" /\ result = "ctxErr")



\* this step takes the scheduled timer u out of its session's activeTimers
\* map and leaves it scheduled
LosesEntry(u) ==
    /\ u \in timers /\ u.st = "armed" /\ u.inMap
    /\ [u EXCEPT !.inMap = FALSE] \in timers'

\* C32 as stated: in WatchMultiple the function of a timer removes only its
\* own timer's entry from activeTimers, never the entry of a newer timer
\* that an event scheduled for the same target in the meantime, so every
\* timer that is still scheduled is the one the map holds for its target.
C32_DeleteOwnEntryOnly ==
    /\ [][\A u \in timers : ~LosesEntry(u)]_vars
    /\ [](mode = "WatchMultiple" /\ pc = "select" =>
             \A u \in timers : u.st = "armed" /\ u.q = Len(queues) => u.inMap)



\* the debt of path p to its caller ends in this step
DebtEnds(p) == owed[p] /\ ~owed'[p]

\* C33 as stated: unless ctx is cancelled, every relevant event the loop of
\* Watch or WatchMultiple has processed is eventually followed by OnChange
\* for its target: the debt an event creates ends only with that call or
\* with cancellation, and it does end.
C33_EventNotified ==
    /\ [][\A p \in Targets :
            DebtEnds(p) => nChange'[p] = nChange[p] + 1 \/ cancelled']_vars
    /\ \A p \in Targets : owed[p] ~> ~owed[p]

\* C33, amended: the same, unless cancellation or an error of the watcher
\* ends the session before the settle delay has passed; the timers of a
\* session that is torn down are given up with it.
C33_EventNotifiedUnlessTornDown ==
    /\ [][\A p \in Targets :
            DebtEnds(p) => \/ nChange'[p] = nChange[p] + 1
                           \/ cancelled'
                           \/ pc = "select" /\ pc' = "open"]_vars
    /\ \A p \in Targets : owed[p] ~> ~owed[p]

\* the second session of WatchMultiple, opened after an error of the watcher,
\* has processed two events of a target and notified the change
C33_Witness ==
    /\ mode = "WatchMultiple" /\ pc = "select" /\ ~cancelled
    /\ nWatchers = 2 /\ errBudget = MaxErrors - 1
    /\ nEvents[FileA] = 2 /\ nChange[FileA] = 1 /\ ~owed[FileA]



\* the function of timer t is blocked in its send: the queue of its session
\* is full
Blocked(t) == t.st = "fired" /\ Len(queues[t.q]) >= QueueCap

\* C34 as stated: in WatchMultiple the settlements posted and not yet
\* consumed never exceed the capacity len(cfg.TargetFiles) of the session's
\* queue and no timer function ever finds the queue full, so that none is
\* blocked in its send, be it after the session was torn down or the call
\* has returned.
C34_PostNeverBlocks ==
    /\ \A q \in 1..Len(queues) : Len(queues[q]) <= QueueCap
    /\ \A t \in timers : ~Blocked(t)



\* the loop of WatchMultiple waits in timerMutex.Lock()
LoopWaitsForMutex == pc \in {"evLock", "doneLock"}

\* the loop calls none of the caller's callbacks and takes nothing from the
\* settled queue in this step
NoCallbackNoReceive ==
    /\ UNCHANGED <<nOnError, onEventCalled, nChange, changeAfterCancel, changeAfterReturn>>
    /\ \A q \in 1..Len(queues) : Len(queues'[q]) >= Len(queues[q])

\* C35: WatchMultiple cannot deadlock on timerMutex and the settled queue.
\* Between Lock() and Unlock() the loop has a step it can always take, and
\* in it calls no callback and receives from no channel; a timer function
\* posts before it takes the mutex, never while it holds it, and can always
\* go on once it holds it; hence the loop, when it waits for the mutex, gets
\* it, and is back at its select (or has returned) afterwards.
C35_NoDeadlockOnMutex ==
    /\ [](LoopHoldsMutex =>
             ENABLED (WatchMultiple_EventReschedule \/ WatchMultiple_DoneStopAll))
    /\ [][LoopHoldsMutex /\ pc' # pc => NoCallbackNoReceive]_vars
    /\ [][\A t \in timers : Posts(t) => t \notin FuncsHoldingMutex(t.q)]_vars
    /\ [](\A t \in timers : t.st = "locked" =>
             ~Blocked(t) /\ ENABLED AfterFunc_DeleteUnlock(t))
    /\ (LoopWaitsForMutex \/ LoopHoldsMutex) ~> (pc \in {"select", "returned"})

\* ctx is cancelled and the loop waits in timerMutex.Lock() of the ctx.Done()
\* case while a timer function of the session holds the mutex
C35_Witness ==
    /\ pc = "doneLock" /\ cancelled
    /\ \E t \in timers : t.st = "locked" /\ t.q = Len(queues)



\* C36: once Watch or WatchMultiple has returned, for whatever reason, the
\* call invokes OnChange, OnEvent and OnError no more: the loop takes no
\* further step, and the timers that are still scheduled and the timer
\* functions that still run call none of them.
C36_NoCallbackAfterReturn ==
    /\ [][pc = "returned" =>
             /\ pc' = "returned" /\ result' = result
             /\ nOnError' = nOnError
             /\ onEventCalled' = onEventCalled
             /\ nChange' = nChange /\ fires' = fires
             /\ ~changeAfterReturn']_vars
    /\ [](~changeAfterReturn)

\* WatchMultiple has returned on cancellation and the function of one of its
\* timers has posted its path and still runs
C36_Witness ==
    /\ mode = "WatchMultiple" /\ pc = "returned" /\ result = "ctxErr"
    /\ ~changeAfterCancel
    /\ \E t \in timers : t.st = "sent" /\ t.q = Len(queues)



\* WatchMultiple was given the same path twice
Duplicated == mode = "WatchMultiple" /\ cfg.TargetFiles = <<FileA, FileA>>

\* the timers of the current session that the map holds for path p, scheduled
ScheduledInMap(ts, p) ==
    {t \in ts : t.path = p /\ t.q = Len(queues) /\ t.inMap /\ t.st = "armed"}

\* C37: WatchMultiple with a path listed twice in TargetFiles treats it as
\* one target: a relevant event for the path schedules one timer (at most one
\* new timer, and the map then holds exactly one scheduled timer for the
\* path, a full settle delay ahead), and a followed burst gives exactly one
\* OnChange(path), not one for each entry.
C37_DuplicateIsOneTarget ==
    /\ [][Duplicated /\ nEvents'[FileA] = nEvents[FileA] + 1 =>
             /\ Cardinality({t \in timers' \ timers : t.st = "armed"}) <= 1
             /\ Cardinality(ScheduledInMap(timers', FileA)) = 1
             /\ \A t \in ScheduledInMap(timers', FileA) : t.left = cfg.Debounce]_vars
    /\ [](Duplicated /\ pc \in {"select", "returned"} => BurstSettlesOnce(FileA))
    /\ [](Duplicated => \A p \in Targets \ {FileA} : nChange[p] = 0)

\* with the path listed twice, a burst of two events has been delivered once
C37_Witness ==
    /\ Duplicated /\ pc = "select" /\ ~cancelled
    /\ clean[FileA] /\ nEvents[FileA] = 2 /\ nBursts[FileA] = 1
    /\ since[FileA] > D /\ fires[FileA] = 1 /\ nChange[FileA] = 1
    /\ timers = {}

=============================================================================
